---------------------------- MODULE Spec2Model ----------------------------
(***************************************************************************)
(* Model of the diagnostic inference pipeline of heartDetection:           *)
(*   - ModelService._finalize_conclusion  (vote aggregation)               *)
(*   - XunfeiOCR.recognize_from_base64    (bounded retry loop)             *)
(*   - ModelService.detect_disease and the detect endpoint, with the       *)
(*     detection_result / detection_image tables of one case.              *)
(*   - UltrasoundReport.process_images, XunfeiOCR._parse_ultrasound_data,  *)
(*     UltrasoundReport.generate_report and _evaluate_chamber_size         *)
(*   - two interleaved runs of detect_disease on one case, and             *)
(*     update_detection_result                                             *)
(*                                                                         *)
(* Probabilities are integers in percent; a mean is kept as the exact      *)
(* reduced fraction [num, den] (in percent), so 0.0 is [num |-> 0,         *)
(* den |-> 1].  A conclusion string is kept as the sequence of its clauses *)
(* (the pieces joined by the full-width comma): no clause the code writes  *)
(* is a substring of another one and none contains the delimiter, so the   *)
(* Python test `phrase in conclusion` is membership in that sequence.      *)
(***************************************************************************)
EXTENDS Integers, Sequences, FiniteSets, TLC

VARIABLES
    fin_in,      \* _finalize_conclusion: the outputs list passed in
    fin_out,     \* _finalize_conclusion: what the call returned
    ocr_pc,      \* recognize_from_base64: position ("loop", "returned", "raised", "fell_through")
    ocr_attempt, \* recognize_from_base64: loop variable `attempt`
    ocr_log,     \* recognize_from_base64: outcome of every request sent so far
    images,      \* ultrasound_image rows of the case: the image_type of each
    results,     \* detection_result rows of the case (committed)
    detImages,   \* detection_image rows (committed)
    sess,        \* detection_image rows as the open session sees them (uncommitted)
    nextResultId,\* autoincrement of detection_result.id
    nextImageId, \* autoincrement of detection_image.id
    clock,       \* datetime.utcnow(), one tick per classified run
    pc,          \* detect_disease: "idle", "gradcam", "segment", "report"
    camLeft,     \* detect_disease: prediction_outputs not yet explained
    segLeft,     \* segment_and_save_masks: image_records not yet visited
    conclusion,  \* the local `conclusion` of detect_disease / segment_and_save_masks
    resultId,    \* detection_result.id of the run
    hits,        \* per finding phrase, how many views of the run exceeded the threshold
    last,        \* the answer to the detect request just made (HTTP status, error,
                 \* whether a view was usable); cleared by the next request
    pi_map,      \* process_images: the keys of self.image_map
    pi_todo,     \* process_images: keys the loop has not visited yet
    pi_data,     \* process_images: self.data, view name -> what recognition returned
    pi_log,      \* process_images: per visited key, what happened to it
    cc_rows,     \* interleaved runs: detection_result rows of the case (committed)
    cc_run,      \* interleaved runs: per run its position and locals
    cc_nextId,   \* interleaved runs: autoincrement of detection_result.id
    cc_clock,    \* interleaved runs: datetime.utcnow(), one tick per write
    ps_text,     \* _parse_ultrasound_data: the recognized text
    ps_out,      \* _parse_ultrasound_data: the measurements returned
    rp_data,     \* UltrasoundReport: self.data, the items in insertion order
    rp_out,      \* UltrasoundReport: what generate_report did
    ec_in,       \* _evaluate_chamber_size: the measurements passed in
    ec_out,      \* _evaluate_chamber_size: the line returned
    sf_todo,     \* views of the case not yet segmented
    sf_concl,    \* the conclusion segment_and_save_masks builds
    sf_view,     \* the view of the last pass, its pixel counts, the conclusion before it
    ap_cases,    \* endpoints: case rows
    ap_images,   \* endpoints: ultrasound_image rows
    ap_results,  \* endpoints: detection_result rows
    ap_detImages,\* endpoints: detection_image rows
    ap_next,     \* endpoints: the autoincrement of each table
    ap_last      \* endpoints: the answer to the last request

finVars == <<fin_in, fin_out>>
ocrVars == <<ocr_pc, ocr_attempt, ocr_log>>
dbVars == <<results, detImages, nextResultId, nextImageId, clock>>
runVars == <<pc, camLeft, segLeft, conclusion, resultId, hits, sess>>
pipeVars == <<images, dbVars, runVars, last>>
piVars == <<pi_map, pi_todo, pi_data, pi_log>>
ccVars == <<cc_rows, cc_run, cc_nextId, cc_clock>>
psVars == <<ps_text, ps_out>>
rpVars == <<rp_data, rp_out>>
ecVars == <<ec_in, ec_out>>
sfVars == <<sf_todo, sf_concl, sf_view>>
apVars == <<ap_cases, ap_images, ap_results, ap_detImages, ap_next, ap_last>>
unitVars == <<piVars, ccVars, psVars, rpVars, ecVars, sfVars, apVars>>
vars == <<finVars, ocrVars, pipeVars, unitVars>>
\* everything outside one unit
exceptPi == <<finVars, ocrVars, pipeVars, ccVars, psVars, rpVars, ecVars, sfVars, apVars>>
exceptCc == <<finVars, ocrVars, pipeVars, piVars, psVars, rpVars, ecVars, sfVars, apVars>>
exceptPs == <<finVars, ocrVars, pipeVars, piVars, ccVars, rpVars, ecVars, sfVars, apVars>>
exceptRp == <<finVars, ocrVars, pipeVars, piVars, ccVars, psVars, ecVars, sfVars, apVars>>
exceptEc == <<finVars, ocrVars, pipeVars, piVars, ccVars, psVars, rpVars, sfVars, apVars>>
exceptSf == <<finVars, ocrVars, pipeVars, piVars, ccVars, psVars, rpVars, ecVars, apVars>>
exceptAp == <<finVars, ocrVars, pipeVars, piVars, ccVars, psVars, rpVars, ecVars, sfVars>>

(***************************************************************************)
(* Bounds of the model.                                                    *)
(***************************************************************************)
MaxVotes == 4

MaxRuns == 2

MaxDistances == 5

MaxTokens == 2

MaxViews == 2

\* cases ever created through the endpoints
MaxCases == 2

\* rows ever added to each other table through the endpoints
MaxRows == 1

BoundedSeq(S, n) == UNION {[1..k -> S] : k \in 0..n}

(***************************************************************************)
(* Exact fractions.                                                        *)
(***************************************************************************)
RECURSIVE Gcd(_, _)
Gcd(a, b) == IF b = 0 THEN a ELSE Gcd(b, a % b)

Frac(n, d) == LET g == Gcd(n, d) IN [num |-> n \div g, den |-> d \div g]

ZeroConfidence == [num |-> 0, den |-> 1]

(***************************************************************************)
(* ModelService._finalize_conclusion                                       *)
(***************************************************************************)
class_names == {"mild", "moderate"}

ProbValues == {0, 50, 100}

Vote == [pred_label : class_names, prob : ProbValues]

RECURSIVE SumProb(_)
SumProb(s) == IF s = <<>> THEN 0 ELSE Head(s).prob + SumProb(Tail(s))

IsMild(o) == o.pred_label = "mild"

\* predictions.count('mild')
mild_count(outputs) == Len(SelectSeq(outputs, IsMild))

\* mutant: the comparison is the other way round
FinalConclusionMinority(outputs) ==
    IF 2 * mild_count(outputs) <= Len(outputs) THEN "mild" ELSE "moderate"

\* mutant: a strict majority is required for mild
FinalConclusionStrict(outputs) ==
    IF 2 * mild_count(outputs) > Len(outputs) THEN "mild" ELSE "moderate"

\* 'mild' if mild_count >= len(predictions) / 2 else 'moderate'  (true division)
FinalConclusion(outputs) ==
    IF 2 * mild_count(outputs) >= Len(outputs) THEN "mild" ELSE "moderate"

\* mutant: the mean is taken over all votes
FinalConfidencesAll(outputs, final) == outputs

\* [score for label, score in confidence_scores if label == final_conclusion]
FinalConfidences(outputs, final) ==
    SelectSeq(outputs, LAMBDA o : o.pred_label = final)

\* mutant: the sum is not divided by the number of agreeing votes
AvgConfidenceSum(outputs, final) ==
    LET fc == FinalConfidences(outputs, final)
    IN  IF Len(fc) > 0 THEN Frac(SumProb(fc), 1) ELSE ZeroConfidence

\* sum(final_confidences) / len(final_confidences) if final_confidences else 0.0
AvgConfidence(outputs, final) ==
    LET fc == FinalConfidences(outputs, final)
    IN  IF Len(fc) > 0 THEN Frac(SumProb(fc), Len(fc)) ELSE ZeroConfidence

finalize_conclusion(outputs) ==
    LET final == FinalConclusion(outputs)
    IN  [label |-> final, confidence |-> AvgConfidence(outputs, final)]

NotCalled == [called |-> FALSE, label |-> "mild", confidence |-> ZeroConfidence]

FinalizeCall ==
    /\ ~fin_out.called
    /\ fin_out' = [called |-> TRUE,
                   label |-> finalize_conclusion(fin_in).label,
                   confidence |-> finalize_conclusion(fin_in).confidence]
    /\ UNCHANGED <<unitVars, fin_in, ocrVars, pipeVars>>

(***************************************************************************)
(* XunfeiOCR.recognize_from_base64                                         *)
(***************************************************************************)
max_retries == 3

\* what one pass through the try block can end in
OcrFailures == {"network", "http_status", "header_code", "unparsable", "empty_text"}
OcrOutcomes == OcrFailures \cup {"ok"}

\* mutant: the last attempt is retried too, so the loop runs out
RetryAgainAlways(attempt) == attempt < max_retries

\* if attempt < max_retries - 1: sleep, continue
RetryAgain(attempt) == attempt < max_retries - 1

\* the try block reaches `return self._parse_ultrasound_data(...)`
OcrSucceed ==
    /\ ocr_pc = "loop"
    /\ ocr_attempt < max_retries
    /\ ocr_log' = Append(ocr_log, "ok")
    /\ ocr_pc' = "returned"
    /\ UNCHANGED <<unitVars, ocr_attempt, finVars, pipeVars>>

\* the try block raises and the handler sleeps and continues; when range()
\* is exhausted the function falls off its end
OcrRetry ==
    /\ ocr_pc = "loop"
    /\ ocr_attempt < max_retries
    /\ RetryAgain(ocr_attempt)
    /\ \E f \in OcrFailures : ocr_log' = Append(ocr_log, f)
    /\ ocr_attempt' = ocr_attempt + 1
    /\ ocr_pc' = IF ocr_attempt + 1 < max_retries THEN "loop" ELSE "fell_through"
    /\ UNCHANGED <<unitVars, finVars, pipeVars>>

\* the try block raises and the handler re-raises "OCR识别失败: ..."
OcrRaise ==
    /\ ocr_pc = "loop"
    /\ ocr_attempt < max_retries
    /\ ~RetryAgain(ocr_attempt)
    /\ \E f \in OcrFailures : ocr_log' = Append(ocr_log, f)
    /\ ocr_pc' = "raised"
    /\ UNCHANGED <<unitVars, ocr_attempt, finVars, pipeVars>>

OcrNext == OcrSucceed \/ OcrRetry \/ OcrRaise

(***************************************************************************)
(* The tables and the view routing of the pipeline.                        *)
(***************************************************************************)
\* image_type values the model uploads: 3 and 4 are classified, segmented and
\* reflux-bearing; 5 carries measurements and is mapped by neither the
\* classifier nor the segmentation table
UploadTypes == {3, 4, 5}

\* keys of type_map in _map_image_type_to_model_key
ClassifierViews == {1, 2, 3, 4}

\* keys of model_configs in segment_and_save_masks
SegmentationViews == {1, 2, 3, 4}

\* img.image_type in [5, 6, 7, 8, 9, 10]
MeasurementViews == 5..10

\* model_configs[t]["class_names"]
SegClassNames(t) ==
    CASE t = 1 -> {"LA", "LV", "RA", "RV", "MV", "TV"}
      [] t = 2 -> {"LA", "LV", "RV", "AV", "MV", "LVOT"}
      [] t = 3 -> {"MV", "TV", "Aorta"}
      [] t = 4 -> {"MV", "Aorta"}

\* record.image_type == 3 or record.image_type == 4
RefluxViews == {3, 4}

threshold == 100

\* (pred_mask == index).sum() around the threshold
PixelCounts == {100, 101}

\* image_type=output["image_type"] + 4
gradcam_offset == 4

\* mutant: the overlay is stored under the type of its view
GradCamImageTypeOfView(image_type) == image_type

\* the image_type argument of generate_gradcam_and_save
GradCamImageType(image_type) == image_type + gradcam_offset

\* "二尖瓣反流（轻度）" / "二尖瓣反流（中度）"
SeverityClause(label) ==
    IF label = "mild" THEN "MR_mild"
    ELSE IF label = "moderate" THEN "MR_moderate" ELSE label

\* "三尖瓣反流" and "主动脉瓣反流"
Phrases == {"TR", "AR"}

\* upload_file_to_cos with content_type image/png: key = path_prefix/filename
ArtifactPath(kind, rid, t) == <<kind, rid, t>>

\* the softmax probability of the arg-max of two classes is at least one half
WinnerProbs == {p \in ProbValues : 2 * p >= 100}

\* what _predict_case meets at one image of a classified view
PredictOutcomes ==
    {[kind |-> "no_model", pred_label |-> "mild", prob |-> 0],
     [kind |-> "unreadable", pred_label |-> "mild", prob |-> 0]}
    \cup [kind : {"vote"}, pred_label : class_names, prob : WinnerProbs]

PredictEnv == [images \cap ClassifierViews -> PredictOutcomes]

\* the images that append to `results` in _predict_case
Usable(env) == {t \in DOMAIN env : env[t].kind = "vote"}

\* requests.get / Image.open raise inside the loop of _predict_case
PredictRaises(env) == \E t \in DOMAIN env : env[t].kind = "unreadable"

RECURSIVE OutputsOf(_, _)
OutputsOf(env, ts) ==
    IF ts = {} THEN <<>>
    ELSE LET t == CHOOSE x \in ts : \A y \in ts : x <= y
         IN  <<[pred_label |-> env[t].pred_label, prob |-> env[t].prob]>>
               \o OutputsOf(env, ts \ {t})

\* mutant: the lookup of the case's result finds nothing
ExistingResultNone(rs) == {}

\* db.query(DetectionResult).filter_by(case_id=case_id).first()
ExistingResult(rs) == {r \in rs : \A q \in rs : r.id <= q.id}

\* mutant: the update branch adds the new conclusion to the stored one
UpsertResultAppend(rs, concl, conf, now, newId) ==
    IF ExistingResult(rs) # {}
    THEN {IF r \in ExistingResult(rs)
          THEN [r EXCEPT !.conclusion = @ \o concl, !.description = "",
                         !.confidence = conf, !.result_time = now]
          ELSE r : r \in rs}
    ELSE rs \cup {[id |-> newId, conclusion |-> concl, description |-> "",
                   confidence |-> conf, result_time |-> now]}

\* mutant: the update branch leaves the description alone
UpsertResultKeep(rs, concl, conf, now, newId) ==
    IF ExistingResult(rs) # {}
    THEN {IF r \in ExistingResult(rs)
          THEN [r EXCEPT !.conclusion = concl,
                         !.confidence = conf, !.result_time = now]
          ELSE r : r \in rs}
    ELSE rs \cup {[id |-> newId, conclusion |-> concl, description |-> "",
                   confidence |-> conf, result_time |-> now]}

\* lines 43-59: update the case's result in place, else insert one
UpsertResult(rs, concl, conf, now, newId) ==
    IF ExistingResult(rs) # {}
    THEN {IF r \in ExistingResult(rs)
          THEN [r EXCEPT !.conclusion = concl, !.description = "",
                         !.confidence = conf, !.result_time = now]
          ELSE r : r \in rs}
    ELSE rs \cup {[id |-> newId, conclusion |-> concl, description |-> "",
                   confidence |-> conf, result_time |-> now]}

UpsertedId(rs, newId) ==
    IF ExistingResult(rs) # {}
    THEN (CHOOSE r \in ExistingResult(rs) : TRUE).id ELSE newId

\* mutant: the lookup of the artifact row finds nothing
ExistingImageNone(rows, rid, t) == {}

\* db.query(DetectionImage).filter_by(result_id=..., image_type=...).first()
ExistingImage(rows, rid, t) ==
    LET m == {d \in rows : d.result_id = rid /\ d.image_type = t}
    IN  {d \in m : \A e \in m : d.id <= e.id}

\* lines 205-215 and 302-313: overwrite the row of (result, type), else add one
UpsertImage(rows, rid, t, path, now, newId) ==
    IF ExistingImage(rows, rid, t) # {}
    THEN {IF d \in ExistingImage(rows, rid, t)
          THEN [d EXCEPT !.file_path = path, !.created_at = now]
          ELSE d : d \in rows}
    ELSE rows \cup {[id |-> newId, result_id |-> rid, image_type |-> t,
                     file_path |-> path, created_at |-> now]}

ImageIdAfter(rows, rid, t, newId) ==
    IF ExistingImage(rows, rid, t) # {} THEN newId ELSE newId + 1

InSeq(x, s) == \E i \in DOMAIN s : s[i] = x

\* mutant: the phrase is appended whether or not it is there
AlreadySaidNever(phrase, concl) == FALSE

\* "三尖瓣反流" not in conclusion  (negated)
AlreadySaid(phrase, concl) == InSeq(phrase, concl)

\* mutant: the threshold itself counts
AddFindingAtLeast(t, concl, cls, phrase, count) ==
    IF cls \in SegClassNames(t) /\ count >= threshold /\ ~AlreadySaid(phrase, concl)
    THEN Append(concl, phrase) ELSE concl

\* lines 319-323 and 326-329 for one class
AddFinding(t, concl, cls, phrase, count) ==
    IF cls \in SegClassNames(t) /\ count > threshold /\ ~AlreadySaid(phrase, concl)
    THEN Append(concl, phrase) ELSE concl

\* lines 315-329
AddFindings(t, concl, tv, ao) ==
    IF t \in RefluxViews
    THEN AddFinding(t, AddFinding(t, concl, "TV", "TR", tv), "Aorta", "AR", ao)
    ELSE concl

AddHits(t, h, tv, ao) ==
    IF t \in RefluxViews
    THEN [TR |-> h.TR + (IF "TV" \in SegClassNames(t) /\ tv > threshold THEN 1 ELSE 0),
          AR |-> h.AR + (IF "Aorta" \in SegClassNames(t) /\ ao > threshold THEN 1 ELSE 0)]
    ELSE h

NoHits == [TR |-> 0, AR |-> 0]

\* UltrasoundReport.report returns generate_report(), a str
ReportValueKind == "str"

\* report_map["description"]: a str index works on a dict only
Subscriptable(kind) == kind = "dict"

Response(status, error, usable) ==
    [status |-> status, error |-> error, usable |-> usable]

NoResponse == Response(0, "none", FALSE)

\* the classes of what fetching and decoding an image can raise: OSError
\* covers UnidentifiedImageError and the connection errors of requests;
\* ValueError is what Pillow raises for some files (e.g. "Decompressed Data
\* Too Large" for a PNG text chunk) and the class the service uses for its
\* own refusals
ImageErrors == {"ValueError", "OSError"}

\* the endpoint's handlers: except ValueError -> 400, except Exception -> 500
ExceptStatus(class) == IF class = "ValueError" THEN 400 ELSE 500

RunIdle ==
    /\ pc' = "idle"
    /\ camLeft' = {}
    /\ segLeft' = {}
    /\ conclusion' = <<>>
    /\ resultId' = 0
    /\ hits' = NoHits
    /\ sess' = {}

(***************************************************************************)
(* upload_ultrasound_image / delete_ultrasound_image                       *)
(***************************************************************************)
\* lines 46-53: one row per (case, image_type); a second upload of a type
\* replaces the file of the row it finds
UploadImage ==
    /\ pc = "idle"
    /\ \E t \in UploadTypes \ images : images' = images \cup {t}
    /\ last' = NoResponse
    /\ UNCHANGED <<unitVars, finVars, ocrVars, dbVars, runVars>>

DeleteImage ==
    /\ pc = "idle"
    /\ \E t \in images : images' = images \ {t}
    /\ last' = NoResponse
    /\ UNCHANGED <<unitVars, finVars, ocrVars, dbVars, runVars>>

(***************************************************************************)
(* POST /{case_id}/detect -> ModelService.detect_disease                   *)
(***************************************************************************)
\* mutant: the empty image list is not rejected
NoImagesNever(imgs) == FALSE

\* if not images
NoImages(imgs) == imgs = {}

\* lines 28-30, then except ValueError -> 400
DetectNoImages ==
    /\ pc = "idle"
    /\ NoImages(images)
    /\ last' = Response(ExceptStatus("ValueError"), "no_images", FALSE)
    /\ UNCHANGED <<unitVars, finVars, ocrVars, images, dbVars, runVars>>

\* lines 132-133 raise out of _predict_case, then the endpoint's handlers
DetectUnreadable ==
    /\ pc = "idle"
    /\ ~NoImages(images)
    /\ \E env \in PredictEnv :
          /\ PredictRaises(env)
          /\ \E c \in ImageErrors :
                last' = Response(ExceptStatus(c), "image_unreadable",
                                 Usable(env) # {})
    /\ UNCHANGED <<unitVars, finVars, ocrVars, images, dbVars, runVars>>

\* lines 152-153, then except ValueError -> 400
DetectNoUsableViews ==
    /\ pc = "idle"
    /\ ~NoImages(images)
    /\ \E env \in PredictEnv :
          /\ ~PredictRaises(env)
          /\ Usable(env) = {}
          /\ last' = Response(ExceptStatus("ValueError"), "no_usable_views", FALSE)
    /\ UNCHANGED <<unitVars, finVars, ocrVars, images, dbVars, runVars>>

\* lines 33-59: predict, aggregate, upsert the result, commit
DetectClassified ==
    /\ pc = "idle"
    /\ ~NoImages(images)
    /\ clock < MaxRuns
    /\ \E env \in PredictEnv :
          /\ ~PredictRaises(env)
          /\ Usable(env) # {}
          /\ LET fin == finalize_conclusion(OutputsOf(env, Usable(env)))
                 concl == <<SeverityClause(fin.label)>>
             IN  /\ results' = UpsertResult(results, concl, fin.confidence,
                                            clock + 1, nextResultId)
                 /\ resultId' = UpsertedId(results, nextResultId)
                 /\ nextResultId' = IF ExistingResult(results) # {}
                                    THEN nextResultId ELSE nextResultId + 1
                 /\ conclusion' = concl
          /\ camLeft' = Usable(env)
    /\ clock' = clock + 1
    /\ pc' = "gradcam"
    /\ hits' = NoHits
    /\ last' = NoResponse
    /\ UNCHANGED <<unitVars, finVars, ocrVars, images, detImages, nextImageId, segLeft,
                   sess>>

\* lines 62-72 with generate_gradcam_and_save: one overlay saved and committed;
\* after the last one segment_and_save_masks queries the case's images
GradCamSave ==
    /\ pc = "gradcam"
    /\ \E t \in camLeft :
          /\ detImages' = UpsertImage(detImages, resultId, GradCamImageType(t),
                                      ArtifactPath("gradcam", resultId,
                                                   GradCamImageType(t)),
                                      clock, nextImageId)
          /\ nextImageId' = ImageIdAfter(detImages, resultId, GradCamImageType(t),
                                         nextImageId)
          /\ camLeft' = camLeft \ {t}
          /\ IF camLeft \ {t} = {}
             THEN /\ pc' = "segment"
                  /\ segLeft' = images \cap SegmentationViews
                  /\ sess' = detImages'
             ELSE UNCHANGED <<pc, segLeft, sess>>
    /\ UNCHANGED <<unitVars, finVars, ocrVars, images, results, nextResultId, clock,
                   conclusion, resultId, hits, last>>

\* generate_gradcam_and_save raises (CAM, blend or upload): nothing catches it
\* before the endpoint's handlers
GradCamFail ==
    /\ pc = "gradcam"
    /\ camLeft # {}
    /\ \E c \in ImageErrors : last' = Response(ExceptStatus(c), "gradcam", TRUE)
    /\ RunIdle
    /\ UNCHANGED <<unitVars, finVars, ocrVars, images, dbVars>>

\* lines 262-329 for one record: overlay saved, row added or changed in the
\* session, findings appended to the local conclusion
SegmentSave ==
    /\ pc = "segment"
    /\ \E t \in segLeft, tv \in PixelCounts, ao \in PixelCounts :
          /\ sess' = UpsertImage(sess, resultId, t,
                                 ArtifactPath("segmentation", resultId, t),
                                 clock, nextImageId)
          /\ nextImageId' = ImageIdAfter(sess, resultId, t, nextImageId)
          /\ conclusion' = AddFindings(t, conclusion, tv, ao)
          /\ hits' = AddHits(t, hits, tv, ao)
          /\ segLeft' = segLeft \ {t}
    /\ UNCHANGED <<unitVars, finVars, ocrVars, images, results, detImages, nextResultId,
                   clock, pc, camLeft, resultId, last>>

\* torch.load of a missing file, requests.get, Image.open or the upload raise
\* inside the loop: the uncommitted rows of the session are lost
SegmentFail ==
    /\ pc = "segment"
    /\ segLeft # {}
    /\ \E c \in ImageErrors :
          last' = Response(ExceptStatus(c), "segmentation", TRUE)
    /\ RunIdle
    /\ UNCHANGED <<unitVars, finVars, ocrVars, images, dbVars>>

\* lines 330-335: commit the rows, write the conclusion to the result, commit
SegmentCommit ==
    /\ pc = "segment"
    /\ segLeft = {}
    /\ detImages' = sess
    /\ results' = {IF r.id = resultId THEN [r EXCEPT !.conclusion = conclusion]
                   ELSE r : r \in results}
    /\ pc' = "report"
    /\ UNCHANGED <<unitVars, finVars, ocrVars, images, nextResultId, nextImageId, clock,
                   camLeft, segLeft, conclusion, resultId, hits, sess, last>>

\* lines 77-78 with an empty image_map, line 85, then the endpoint returns
ReportSkip ==
    /\ pc = "report"
    /\ images \cap MeasurementViews = {}
    /\ last' = Response(200, "none", TRUE)
    /\ RunIdle
    /\ UNCHANGED <<unitVars, finVars, ocrVars, images, dbVars>>

\* lines 78-85 with a non-empty image_map; lines 81-83 are reached only with
\* a subscriptable report value
ReportStep ==
    /\ pc = "report"
    /\ images \cap MeasurementViews # {}
    /\ IF Subscriptable(ReportValueKind)
       THEN /\ results' = {IF r.id = resultId
                           THEN [r EXCEPT !.description = "report"]
                           ELSE r : r \in results}
            /\ last' = Response(200, "none", TRUE)
       ELSE /\ results' = results
            /\ last' = Response(ExceptStatus("TypeError"), "report", TRUE)
    /\ RunIdle
    /\ UNCHANGED <<unitVars, finVars, ocrVars, images, detImages, nextResultId,
                   nextImageId, clock>>

DetectStart ==
    DetectNoImages \/ DetectUnreadable \/ DetectNoUsableViews \/ DetectClassified

(***************************************************************************)
(* Claims about _finalize_conclusion (checked under SpecFinalize).         *)
(***************************************************************************)
VotesFor(l) == {i \in DOMAIN fin_in : fin_in[i].pred_label = l}

RECURSIVE SumOver(_)
SumOver(I) ==
    IF I = {} THEN 0
    ELSE LET i == CHOOSE j \in I : TRUE IN fin_in[i].prob + SumOver(I \ {i})

\* C1: for a non-empty list of votes the returned label is mild exactly when
\* the mild votes are at least half of all votes (a tie gives mild), and
\* moderate otherwise.
C1_MajorityRule ==
    (fin_out.called /\ Len(fin_in) >= 1) =>
        /\ fin_out.label \in class_names
        /\ fin_out.label = "mild"
             <=> 2 * Cardinality(VotesFor("mild")) >= Len(fin_in)
        /\ Cardinality(VotesFor("mild")) = Cardinality(VotesFor("moderate"))
             => fin_out.label = "mild"

C1_Witness ==
    /\ fin_out.called
    /\ Len(fin_in) = 2
    /\ Cardinality(VotesFor("mild")) = 1
    /\ fin_out.label = "mild"

\* C2: the returned confidence is the mean of the probabilities of exactly
\* the votes whose label is the returned label, and 0.0 when there is none.
C2_MeanOfAgreeing ==
    fin_out.called =>
        LET agree == VotesFor(fin_out.label)
        IN  IF agree = {}
            THEN fin_out.confidence = ZeroConfidence
            ELSE /\ fin_out.confidence.den > 0
                 /\ fin_out.confidence.num * Cardinality(agree)
                      = SumOver(agree) * fin_out.confidence.den

\* a losing vote is present whose probability differs from the winners' mean
C2_Witness ==
    /\ fin_out.called
    /\ Len(fin_in) = 3
    /\ Cardinality(VotesFor(fin_out.label)) = 2
    /\ \E i \in DOMAIN fin_in :
          /\ fin_in[i].pred_label # fin_out.label
          /\ fin_in[i].prob * fin_out.confidence.den # fin_out.confidence.num

(***************************************************************************)
(* Claims about recognize_from_base64 (checked under SpecOcr).             *)
(***************************************************************************)
OcrFailedOnly(s) == \A i \in DOMAIN s : s[i] \in OcrFailures

\* C10: at most 3 requests are sent per call; the call returns on the first
\* successful attempt; every kind of failure before the 3rd is retried; the
\* 3rd consecutive failure raises; the loop cannot run on (while it runs
\* fewer than 3 requests were sent and a further attempt is possible).
C10_BoundedRetry ==
    /\ Len(ocr_log) <= 3
    /\ ocr_pc \in {"loop", "returned", "raised"}
    /\ ocr_pc = "returned" =>
          /\ ocr_log[Len(ocr_log)] = "ok"
          /\ OcrFailedOnly(SubSeq(ocr_log, 1, Len(ocr_log) - 1))
    /\ ocr_pc = "raised" => (Len(ocr_log) = 3 /\ OcrFailedOnly(ocr_log))
    /\ ocr_pc = "loop" =>
          /\ OcrFailedOnly(ocr_log)
          /\ Len(ocr_log) = ocr_attempt
          /\ Len(ocr_log) < 3
          /\ ENABLED OcrNext

C10_Witness ==
    /\ ocr_pc = "raised"
    /\ ocr_log = <<"http_status", "header_code", "empty_text">>


(***************************************************************************)
(* Claims about detect_disease (checked under Spec).                       *)
(***************************************************************************)
Occurrences(x, s) == Cardinality({i \in DOMAIN s : s[i] = x})

SameKey(a, b) == a.result_id = b.result_id /\ a.image_type = b.image_type

ArtifactKind(t) == IF t > gradcam_offset THEN "gradcam" ELSE "segmentation"

\* C3: a detect request on a case without images ends with the no-images
\* ValueError (400) and leaves detection_result and detection_image as they
\* were.
C3_NoImagesRejected ==
    [][(pc = "idle" /\ images = {} /\ DetectStart) =>
          /\ last' = Response(400, "no_images", FALSE)
          /\ pc' = "idle"
          /\ results' = results
          /\ detImages' = detImages]_vars

\* the request is refused on a case that has a result and artifacts already
C3_Witness ==
    /\ images = {}
    /\ last.error = "no_images"
    /\ results # {}
    /\ detImages # {}

\* C4: a detect request in which no image gives a usable classification
\* (unmapped view, missing model file, unreadable image) ends with the
\* no-usable-views error as a 400 and leaves the tables as they were.
C4_NoUsableViewsRejected ==
    [][(pc = "idle" /\ images # {} /\ DetectStart /\ pc' = "idle"
          /\ ~last'.usable) =>
          /\ last' = Response(400, "no_usable_views", FALSE)
          /\ results' = results
          /\ detImages' = detImages]_vars

\* C5: the case never has more than one detection_result, and once it has
\* one, every later step keeps that row's id (runs update it in place).
C5_SingleResult ==
    [][/\ Cardinality(results') <= 1
       /\ results # {} => {r.id : r \in results'} = {r.id : r \in results}]_vars

\* the row made by the first run carries the time of a later run
C5_Witness ==
    /\ Cardinality(results) = 1
    /\ \E r \in results : r.id = 1 /\ r.result_time >= 2

\* C6: there is at most one detection_image per (result, artifact type); a
\* step that saves an artifact whose row exists keeps the row's id and
\* writes the path and the time of the run into it.
C6_OneImagePerType ==
    [][/\ \A a, b \in detImages' : SameKey(a, b) => a = b
       /\ \A a \in detImages : \A b \in detImages' : SameKey(a, b) => b.id = a.id
       /\ \A b \in detImages' \ detImages :
             /\ b.created_at = clock'
             /\ b.file_path = ArtifactPath(ArtifactKind(b.image_type),
                                           b.result_id, b.image_type)]_vars

\* a second run has overwritten the saliency and the segmentation row of the
\* first run without allocating an id
C6_Witness ==
    /\ pc = "idle"
    /\ nextImageId = 3
    /\ Cardinality(detImages) = 2
    /\ \A d \in detImages : d.created_at = 2
    /\ \E d \in detImages : ArtifactKind(d.image_type) = "gradcam"
    /\ \E d \in detImages : ArtifactKind(d.image_type) = "segmentation"

\* C7: no finding phrase occurs twice in a conclusion, stored or in the
\* making, however many views exceed the threshold and however many runs.
C7_PhraseOnce ==
    \A p \in Phrases :
        /\ Occurrences(p, conclusion) <= 1
        /\ \A r \in results : Occurrences(p, r.conclusion) <= 1

\* both reflux views exceeded the aortic threshold in one run
C7_Witness ==
    /\ pc = "report"
    /\ hits.AR = 2
    /\ \E r \in results : Occurrences("AR", r.conclusion) = 1

\* C8: with a measurement-bearing image and a successful classification the
\* report step ends the request successfully with the description set to
\* the report text.
C8_ReportStepSucceeds ==
    [][(pc = "report" /\ images \cap MeasurementViews # {} /\ pc' = "idle") =>
          /\ last'.status = 200
          /\ \E r \in results' : r.id = resultId /\ r.description = "report"]_vars

\* C9: a failure while making a saliency or segmentation overlay does not
\* end the request: no request ends with an error of those two steps.
C9_ArtifactFailureSkipped ==
    ~(pc = "idle" /\ last.status \in {400, 500}
        /\ last.error \in {"gradcam", "segmentation"})

(***************************************************************************)
(* UltrasoundReport.process_images: one loop over self.image_map.          *)
(* View names stand for the Chinese names of type_name_map:                *)
(*   5 chamber_2d, 6 lv_mmode, 7 rv_mmode, 8 lv_tdi, 9 rv_tdi,             *)
(*   10 lv_spectral.                                                       *)
(***************************************************************************)
None == "None"

type_name_map(type_id) ==
    CASE type_id = 5 -> "chamber_2d"
      [] type_id = 6 -> "lv_mmode"
      [] type_id = 7 -> "rv_mmode"
      [] type_id = 8 -> "lv_tdi"
      [] type_id = 9 -> "rv_tdi"
      [] type_id = 10 -> "lv_spectral"
      [] OTHER -> None

\* keys an image_map may hold: the six measurement views and one type the
\* name map does not know
ImageMapKeys == MeasurementViews \cup {11}

\* how the try block of one view can end
ViewFailures == {"fetch_raised", "ocr_raised"}

\* the exception propagates out of the loop: the remaining views are dropped
AfterFailureAbort(todo, type_id) == {}

\* `except Exception: print(...)`: the loop goes on with the next key
AfterFailure(todo, type_id) == todo \ {type_id}

\* `if not image_type: continue`
ViewSkipped ==
    /\ \E t \in pi_todo :
        /\ type_name_map(t) = None
        /\ pi_todo' = pi_todo \ {t}
        /\ pi_log' = (t :> "unmapped") @@ pi_log
    /\ UNCHANGED <<pi_map, pi_data, exceptPi>>

\* the image is fetched and recognize_from_base64 returns the parsed data
ViewRecognized ==
    /\ \E t \in pi_todo :
        /\ type_name_map(t) # None
        /\ pi_data' = (type_name_map(t) :> "parsed") @@ pi_data
        /\ pi_todo' = pi_todo \ {t}
        /\ pi_log' = (t :> "ok") @@ pi_log
    /\ UNCHANGED <<pi_map, exceptPi>>

\* requests.get raises, or recognize_from_base64 raises after its retries
ViewFailed ==
    /\ \E t \in pi_todo, f \in ViewFailures :
        /\ type_name_map(t) # None
        /\ pi_todo' = AfterFailure(pi_todo, t)
        /\ pi_log' = (t :> f) @@ pi_log
    /\ UNCHANGED <<pi_map, pi_data, exceptPi>>

process_images == ViewSkipped \/ ViewRecognized \/ ViewFailed

(***************************************************************************)
(* C11: when process_images has ended, every key of the image map was      *)
(* attempted, and self.data holds an entry for exactly the mapped views     *)
(* (types 5-10) whose fetch and recognition succeeded; a failed view is     *)
(* absent.                                                                  *)
(***************************************************************************)
C11_FailedViewAbsent ==
    pi_todo = {} =>
        /\ DOMAIN pi_log = pi_map
        /\ DOMAIN pi_data =
               {type_name_map(t) : t \in {k \in pi_map : pi_log[k] = "ok"}}
        /\ \A t \in pi_map : pi_log[t] = "ok" => t \in MeasurementViews

\* the loop ended after one view failed and another was recognized
C11_Witness ==
    /\ pi_todo = {}
    /\ \E t1, t2 \in pi_map :
        /\ pi_log[t1] \in ViewFailures
        /\ pi_log[t2] = "ok"
        /\ type_name_map(t2) \in DOMAIN pi_data
        /\ type_name_map(t1) \notin DOMAIN pi_data

(***************************************************************************)
(* Two detect_disease runs on the same case, each in a worker of its own   *)
(* with its own session.  Only the statements that read or write the       *)
(* detection_result table are kept, each commit being one step; the code   *)
(* takes no lock and the table has no unique key on case_id.               *)
(***************************************************************************)
Runs == {1, 2}

RunStart ==
    [pc |-> "start", seen |-> {}, conclusion |-> <<>>,
     confidence |-> ZeroConfidence, resultId |-> 0]

\* the result a case keeps from an earlier, finished run
EarlierResult ==
    [id |-> 1, conclusion |-> <<"MR_mild">>, description |-> "",
     confidence |-> Frac(100, 1), result_time |-> 0]

\* lines 44-58 with the object line 43 returned: update it, else insert one
WriteResult(rs, seen, concl, conf, now, newId) ==
    IF seen # {}
    THEN {IF r.id \in seen
          THEN [r EXCEPT !.conclusion = concl, !.description = "",
                         !.confidence = conf, !.result_time = now]
          ELSE r : r \in rs}
    ELSE rs \cup {[id |-> newId, conclusion |-> concl, description |-> "",
                   confidence |-> conf, result_time |-> now]}

\* lines 33-43: classify, then look the case's result up
RunLookup(r) ==
    /\ cc_run[r].pc = "start"
    /\ \E o \in {v \in Vote : v.prob \in WinnerProbs} :
        cc_run' = [cc_run EXCEPT ![r] =
            [pc |-> "write",
             seen |-> {q.id : q \in ExistingResult(cc_rows)},
             conclusion |-> <<SeverityClause(finalize_conclusion(<<o>>).label)>>,
             confidence |-> finalize_conclusion(<<o>>).confidence,
             resultId |-> 0]]
    /\ UNCHANGED <<cc_rows, cc_nextId, cc_clock, exceptCc>>

\* lines 44-59: update or insert, commit, refresh
RunWrite(r) ==
    /\ cc_run[r].pc = "write"
    /\ cc_rows' = WriteResult(cc_rows, cc_run[r].seen, cc_run[r].conclusion,
                              cc_run[r].confidence, cc_clock + 1, cc_nextId)
    /\ cc_clock' = cc_clock + 1
    /\ cc_nextId' = IF cc_run[r].seen = {} THEN cc_nextId + 1 ELSE cc_nextId
    /\ cc_run' = [cc_run EXCEPT ![r].pc = "store",
                                ![r].resultId =
                                    IF cc_run[r].seen = {} THEN cc_nextId
                                    ELSE CHOOSE i \in cc_run[r].seen : TRUE]
    /\ UNCHANGED exceptCc

\* segment_and_save_masks: the findings of one view are appended to the local
\* conclusion (lines 315-329), which lines 332-335 write to the row of the
\* run's result id
RunStore(r) ==
    /\ cc_run[r].pc = "store"
    /\ \E t \in RefluxViews, tv \in PixelCounts, ao \in PixelCounts :
        LET concl == AddFindings(t, cc_run[r].conclusion, tv, ao)
        IN  /\ cc_rows' = {IF q.id = cc_run[r].resultId
                           THEN [q EXCEPT !.conclusion = concl]
                           ELSE q : q \in cc_rows}
            /\ cc_run' = [cc_run EXCEPT ![r].pc = "done",
                                        ![r].conclusion = concl]
    /\ UNCHANGED <<cc_nextId, cc_clock, exceptCc>>

RunStep(r) == RunLookup(r) \/ RunWrite(r) \/ RunStore(r)

(***************************************************************************)
(* C12: when both interleaved runs of a case have ended, the case has at    *)
(* most one detection_result row, and the conclusion and confidence of      *)
(* that row are the complete output of one of the two runs.                 *)
(***************************************************************************)
C12_SerializedPerCase ==
    (\A r \in Runs : cc_run[r].pc = "done") =>
        /\ Cardinality(cc_rows) <= 1
        /\ \A q \in cc_rows : \E r \in Runs :
              /\ q.conclusion = cc_run[r].conclusion
              /\ q.confidence = cc_run[r].confidence

(***************************************************************************)
(* update_detection_result (PUT /{result_id}) with a body that sets the    *)
(* description, and a case whose result a client has described that way.   *)
(***************************************************************************)
\* the description a client puts into a result
EditedDescription == "edited"

\* a result of an earlier run after such a PUT
EditedResult ==
    [id |-> 1, conclusion |-> <<"MR_mild">>, description |-> EditedDescription,
     confidence |-> Frac(100, 1), result_time |-> 0]

\* lines 121-142: setattr of the fields the body sets, commit
UpdateDetectionResult ==
    /\ pc = "idle"
    /\ \E r \in results :
        results' = {IF q.id = r.id
                    THEN [q EXCEPT !.description = EditedDescription]
                    ELSE q : q \in results}
    /\ last' = NoResponse
    /\ UNCHANGED <<unitVars, finVars, ocrVars, images, detImages, nextResultId,
                   nextImageId, clock, runVars>>

(***************************************************************************)
(* C13 as stated: the classification step leaves the description of the    *)
(* case's existing result unchanged.                                        *)
(***************************************************************************)
C13_DescriptionKept ==
    [][DetectClassified =>
         \A r \in ExistingResult(results) :
             \E q \in results' : q.id = r.id /\ q.description = r.description]_vars

(***************************************************************************)
(* C13 amended: the classification step sets the conclusion, confidence    *)
(* and timestamp of the case's existing result and resets its description  *)
(* to the empty string; no other row of detection_result, no               *)
(* detection_image and no ultrasound_image changes.                         *)
(***************************************************************************)
C13_DescriptionReset ==
    [][DetectClassified =>
         /\ \A r \in ExistingResult(results) :
               \E q \in results' :
                   /\ q.id = r.id
                   /\ q.description = ""
                   /\ q.conclusion = conclusion'
                   /\ q.result_time = clock'
         /\ \A r \in results \ ExistingResult(results) : r \in results'
         /\ Cardinality(results') = Cardinality(results)
                + (IF ExistingResult(results) = {} THEN 1 ELSE 0)
         /\ detImages' = detImages
         /\ images' = images]_vars

\* the first classification of a case whose result carried a description has
\* just been committed
C13_Witness ==
    /\ pc = "gradcam"
    /\ clock = 1
    /\ \E q \in results : q.id = resultId /\ q.id = EditedResult.id
                          /\ q.description = "" /\ q.result_time = 1

(***************************************************************************)
(* C14: every failure of a detect request on an existing case is answered  *)
(* by its class of cause: the two refusals of the service (no images, no    *)
(* usable views) with 400, and an exception raised anywhere else in the     *)
(* pipeline with 500, never the other way round.                            *)
(***************************************************************************)
C14_FailureMapping ==
    pc = "idle" =>
        /\ last.error \in {"no_images", "no_usable_views"} => last.status = 400
        /\ last.error \in {"image_unreadable", "gradcam", "segmentation", "report"}
               => last.status = 500

(***************************************************************************)
(* C15: the confidence of every detection_result that detect_disease has    *)
(* stored lies in [0.0, 1.0] (0 to 100 percent).                            *)
(***************************************************************************)
C15_ConfidenceInRange ==
    \A r \in results :
        /\ r.confidence.den > 0
        /\ 0 <= r.confidence.num
        /\ r.confidence.num <= 100 * r.confidence.den

\* a stored confidence that is the mean of two agreeing votes, 0.5 and 1.0
C15_Witness ==
    /\ pc = "gradcam"
    /\ Cardinality(camLeft) = 2
    /\ \E r \in results : r.id = resultId /\ r.confidence = Frac(150, 2)

(***************************************************************************)
(* XunfeiOCR._parse_ultrasound_data.                                       *)
(* The recognized text is kept as the sequence of its annotations, each a  *)
(* label form with the number that follows it; re.search returns the       *)
(* leftmost match, so a pattern yields the number of the first annotation  *)
(* whose form it matches, and `x in text` asks for an annotation whose     *)
(* form contains x.  The forms and what they stand for:                    *)
(*   Dist "Dist v cm"        JuLi "距离 v cm"        2D/MM (no number)     *)
(*   EDV ESV EF FS IVS       the M-mode labels                             *)
(*   MedE "Med E v"          EMedE "E/Med E v"                             *)
(*   NeiCeE "内侧E速度 v"    ZhongGeE "中隔E速度 v"                        *)
(*   ENeiCeE "E/内侧E v"     ENeiCeEFw "E／内侧E v" (full-width slash)     *)
(*   DecelTime "Decel Time v ms"   JianSu "MV减速时间 v ms"   Ms "v ms"    *)
(*   EA "E/A v"   EJA "EJA v"   EAFw "E／A v" (full-width slash)           *)
(*   Vel "Vel v"  SuDu "速度 v"  PG "PG v"  YaLi "压力梯度 v"              *)
(* Lengths are in tenths of a centimetre.                                  *)
(***************************************************************************)
Has(text, forms) == \E i \in DOMAIN text : text[i].form \in forms

\* match.group(1) of re.search with a pattern that matches these forms
FirstValue(text, forms) ==
    text[CHOOSE i \in DOMAIN text :
            /\ text[i].form \in forms
            /\ \A j \in DOMAIN text : text[j].form \in forms => i <= j].value

\* [float(m.group(1)) for m in re.finditer(pattern, text)]
RECURSIVE AllValues(_, _)
AllValues(text, forms) ==
    IF text = <<>> THEN <<>>
    ELSE IF Head(text).form \in forms
         THEN <<Head(text).value>> \o AllValues(Tail(text), forms)
         ELSE AllValues(Tail(text), forms)

\* mutant: the patterns are tried from the last to the first
RECURSIVE FirstMatchReversed(_, _)
FirstMatchReversed(text, patterns) ==
    IF patterns = <<>> THEN {}
    ELSE IF Has(text, patterns[Len(patterns)])
         THEN {FirstValue(text, patterns[Len(patterns)])}
         ELSE FirstMatchReversed(text, SubSeq(patterns, 1, Len(patterns) - 1))

\* for pattern in patterns: m = re.search(pattern, text); if m: ...; break
\* (the value found, as a set of at most one number)
RECURSIVE FirstMatch(_, _)
FirstMatch(text, patterns) ==
    IF patterns = <<>> THEN {}
    ELSE IF Has(text, Head(patterns))
         THEN {FirstValue(text, Head(patterns))}
         ELSE FirstMatch(text, Tail(patterns))

\* data['measurements'][key] = value, when a value was found
Measured(key, found) ==
    IF found = {} THEN <<>> ELSE key :> (CHOOSE v \in found : TRUE)

\* lines 130-138: the English form, and the Chinese one only without it
Distances(text) ==
    IF AllValues(text, {"Dist"}) # <<>>
    THEN AllValues(text, {"Dist"}) ELSE AllValues(text, {"JuLi"})

\* mutant: exactly four distances are required
EnoughDistancesExactly(n) == n = 4

\* len(distances) >= 4
EnoughDistances(n) == n >= 4

\* lines 140-149
DistanceMeasurements(text) ==
    LET d == Distances(text)
    IN  IF EnoughDistances(Len(d))
        THEN ("RA_length" :> d[1]) @@ ("RA_short" :> d[2])
             @@ ("LA_length" :> d[3]) @@ ("LA_short" :> d[4])
        ELSE IF Len(d) = 1 /\ Has(text, {"2D/MM"})
             THEN "TAPSE_dist" :> d[1]
             ELSE <<>>

\* lines 152-167
MModeMeasurements(text) ==
    IF Has(text, {"EDV", "ESV", "EF"})
    THEN Measured("EDV", FirstMatch(text, <<{"EDV"}>>))
         @@ Measured("ESV", FirstMatch(text, <<{"ESV"}>>))
         @@ Measured("LVEF", FirstMatch(text, <<{"EF"}>>))
         @@ Measured("FS", FirstMatch(text, <<{"FS"}>>))
         @@ Measured("IVS", FirstMatch(text, <<{"IVS"}>>))
    ELSE <<>>

\* "Med E v" also occurs inside "E/Med E v"
e_vel_patterns == <<{"MedE", "EMedE"}, {"NeiCeE"}, {"ZhongGeE"}>>

e_med_e_patterns == <<{"EMedE"}, {"ENeiCeE"}, {"ENeiCeEFw"}>>

\* the last pattern takes the digits before any "ms"
edt_patterns == <<{"DecelTime"}, {"JianSu"}, {"DecelTime", "JianSu", "Ms"}>>

ea_patterns == <<{"EA"}, {"EJA"}, {"EAFw"}>>

\* "速度" also ends "内侧E速度" and "中隔E速度"
vel_patterns == <<{"Vel"}, {"SuDu", "NeiCeE", "ZhongGeE"}>>

pg_patterns == <<{"PG"}, {"YaLi"}>>

\* lines 170-195
TissueDopplerMeasurements(text) ==
    IF Has(text, {"MedE", "EMedE", "NeiCeE", "ENeiCeE"})
    THEN Measured("e_velocity", FirstMatch(text, e_vel_patterns))
         @@ Measured("E_Med_E", FirstMatch(text, e_med_e_patterns))
    ELSE <<>>

\* lines 198-223
SpectralMeasurements(text) ==
    IF Has(text, {"DecelTime", "EA", "EJA", "JianSu", "EAFw"})
    THEN Measured("EDT", FirstMatch(text, edt_patterns))
         @@ Measured("E/A", FirstMatch(text, ea_patterns))
    ELSE <<>>

\* '速度' in text and '压力梯度' in text or 'PG' in text
TrCondition(text) ==
    \/ Has(text, {"SuDu", "NeiCeE", "ZhongGeE"}) /\ Has(text, {"YaLi"})
    \/ Has(text, {"PG"})

\* lines 226-249
RightVentricleMeasurements(text) ==
    IF Has(text, {"Vel", "PG", "SuDu", "YaLi", "NeiCeE", "ZhongGeE"})
    THEN Measured("tr_velocity",
                  IF TrCondition(text) THEN FirstMatch(text, vel_patterns) ELSE {})
         @@ Measured("pg", FirstMatch(text, pg_patterns))
    ELSE <<>>

\* data['measurements'] of the dict the function returns
parse_ultrasound_data(text) ==
    DistanceMeasurements(text) @@ MModeMeasurements(text)
    @@ TissueDopplerMeasurements(text) @@ SpectralMeasurements(text)
    @@ RightVentricleMeasurements(text)

NotParsed == [parsed |-> FALSE, measurements |-> <<>>]

ParseCall ==
    /\ ~ps_out.parsed
    /\ ps_out' = [parsed |-> TRUE, measurements |-> parse_ultrasound_data(ps_text)]
    /\ UNCHANGED <<ps_text, exceptPs>>

\* the annotations of a screen with distance measurements
DistanceTokens ==
    [form : {"Dist", "JuLi"}, value : {30, 45}] \cup {[form |-> "2D/MM", value |-> 0]}

\* the annotations of a Doppler screen
DopplerTokens ==
    [form : {"MedE", "EMedE", "NeiCeE", "ZhongGeE", "ENeiCeE", "ENeiCeEFw",
             "DecelTime", "JianSu", "Ms", "EA", "EJA", "EAFw",
             "Vel", "SuDu", "PG", "YaLi"},
     value : {1, 2}]

(***************************************************************************)
(* C16, C17: helpers of the statements.                                    *)
(***************************************************************************)
OfForm(text, form) == SelectSeq(text, LAMBDA a : a.form = form)

\* the distance annotations the parser counts: the English ones, or the
\* Chinese ones when there is no English one
DistanceMatches(text) ==
    IF OfForm(text, "Dist") # <<>> THEN OfForm(text, "Dist") ELSE OfForm(text, "JuLi")

ChamberKeys == {"RA_length", "RA_short", "LA_length", "LA_short"}

InOrder(m, d) ==
    /\ m["RA_length"] = d[1].value
    /\ m["RA_short"] = d[2].value
    /\ m["LA_length"] = d[3].value
    /\ m["LA_short"] = d[4].value

(***************************************************************************)
(* C16 as stated: the four chamber sizes are assigned, in the order         *)
(* RA_length, RA_short, LA_length, LA_short, only when the text has exactly *)
(* 4 distance matches; exactly 1 match with 2D/MM in the text yields only   *)
(* TAPSE_dist; any other number yields neither.                             *)
(***************************************************************************)
C16_ExactlyFour ==
    ps_out.parsed =>
        LET d == DistanceMatches(ps_text)
            m == ps_out.measurements
        IN  /\ Len(d) = 4 => ChamberKeys \subseteq DOMAIN m /\ InOrder(m, d)
            /\ Len(d) # 4 => ChamberKeys \cap DOMAIN m = {}
            /\ Len(d) = 1 /\ Has(ps_text, {"2D/MM"}) => DOMAIN m = {"TAPSE_dist"}
            /\ Len(d) # 1 => "TAPSE_dist" \notin DOMAIN m

(***************************************************************************)
(* C16 amended: the four chamber sizes are assigned from the first four     *)
(* distance matches, in the order RA_length, RA_short, LA_length, LA_short, *)
(* whenever the text has at least 4 of them (5 or more included); exactly 1 *)
(* match with 2D/MM in the text yields only TAPSE_dist; 0, 2 or 3 matches,  *)
(* or 1 match without 2D/MM, yield neither.                                 *)
(***************************************************************************)
C16_AtLeastFour ==
    ps_out.parsed =>
        LET d == DistanceMatches(ps_text)
            m == ps_out.measurements
        IN  /\ Len(d) >= 4 => DOMAIN m = ChamberKeys /\ InOrder(m, d)
            /\ Len(d) = 1 /\ Has(ps_text, {"2D/MM"})
                  => DOMAIN m = {"TAPSE_dist"} /\ m["TAPSE_dist"] = d[1].value
            /\ Len(d) \in {0, 2, 3} \/ (Len(d) = 1 /\ ~Has(ps_text, {"2D/MM"}))
                  => DOMAIN m = {}

\* five distances were recognized and the first four became the chamber sizes
C16_Witness ==
    /\ ps_out.parsed
    /\ Len(OfForm(ps_text, "Dist")) = 5
    /\ ps_text[4].value # ps_text[5].value
    /\ ps_text[1].value # ps_text[2].value
    /\ ChamberKeys \subseteq DOMAIN ps_out.measurements
    /\ ps_out.measurements["RA_length"] = ps_text[1].value
    /\ ps_out.measurements["LA_short"] = ps_text[4].value

\* the first annotation of the text that a pattern matching these forms finds
FirstAnnotation(text, forms) == Head(SelectSeq(text, LAMBDA a : a.form \in forms))

PatternLists ==
    ("E/A" :> ea_patterns) @@ ("EDT" :> edt_patterns)
    @@ ("e_velocity" :> e_vel_patterns) @@ ("E_Med_E" :> e_med_e_patterns)
    @@ ("tr_velocity" :> vel_patterns) @@ ("pg" :> pg_patterns)

(***************************************************************************)
(* C17: a parsed E/A, EDT, e_velocity, E_Med_E, tr_velocity or pg is the    *)
(* number found by the first pattern of its list that matches the text, a   *)
(* later pattern being used only when every earlier one fails; a text with  *)
(* an EJA annotation and no E/A one yields the EJA number as E/A, and a     *)
(* text with both yields the number of the E/A annotation.                  *)
(***************************************************************************)
C17_FirstPatternWins ==
    ps_out.parsed =>
        LET m == ps_out.measurements
        IN  /\ \A key \in DOMAIN PatternLists \cap DOMAIN m :
                  \E i \in DOMAIN PatternLists[key] :
                      /\ Has(ps_text, PatternLists[key][i])
                      /\ \A j \in 1..(i - 1) : ~Has(ps_text, PatternLists[key][j])
                      /\ m[key] = FirstAnnotation(ps_text, PatternLists[key][i]).value
            /\ Has(ps_text, {"EJA"}) /\ ~Has(ps_text, {"EA"}) =>
                  /\ "E/A" \in DOMAIN m
                  /\ m["E/A"] = FirstAnnotation(ps_text, {"EJA"}).value
            /\ Has(ps_text, {"EA"}) =>
                  /\ "E/A" \in DOMAIN m
                  /\ m["E/A"] = FirstAnnotation(ps_text, {"EA"}).value

\* a text with "EJA 2" before "E/A 1" was parsed to E/A = 1
C17_Witness ==
    /\ ps_out.parsed
    /\ ps_text = <<[form |-> "EJA", value |-> 2], [form |-> "EA", value |-> 1]>>
    /\ ps_out.measurements["E/A"] = 1

\* a text with "EJA 2" only was parsed to E/A = 2
C17_FallbackWitness ==
    /\ ps_out.parsed
    /\ ps_text = <<[form |-> "EJA", value |-> 2]>>
    /\ ps_out.measurements["E/A"] = 2

(***************************************************************************)
(* UltrasoundReport: self.data after process_images and generate_report.   *)
(* self.data is a dict, kept here as the sequence of its items in          *)
(* insertion order.  A line of the report is [kind, nums, words]; E/A is   *)
(* in tenths, IVS in mm, velocities in cm/s, times in ms.                  *)
(***************************************************************************)
Ann(form, value) == [form |-> form, value |-> value]

\* what the recognition of one stored image can return as text
Screens ==
    {<<>>,
     <<Ann("Dist", 45), Ann("Dist", 35), Ann("Dist", 45), Ann("Dist", 35)>>,
     <<Ann("Dist", 45), Ann("Dist", 35), Ann("Dist", 45), Ann("Dist", 45)>>,
     <<Ann("2D/MM", 0), Ann("Dist", 20)>>,
     <<Ann("EDV", 100), Ann("ESV", 40), Ann("EF", 60), Ann("IVS", 12)>>,
     <<Ann("EF", 55), Ann("IVS", 11)>>,
     <<Ann("MedE", 8), Ann("EMedE", 12)>>,
     <<Ann("EA", 8), Ann("DecelTime", 180)>>,
     <<Ann("EA", 12)>>,
     <<Ann("EA", 0)>>,
     <<Ann("Vel", 250), Ann("PG", 25)>>,
     <<Ann("Vel", 100), Ann("PG", 4)>>}

Line(kind, nums, words) == [kind |-> kind, nums |-> nums, words |-> words]

Views(data) == {data[i].view : i \in DOMAIN data}

\* _get_measurement_value: the first item of self.data that has the parameter
\* (a set of at most one number; {} is None)
get_measurement_value(data, param) ==
    LET having == {i \in DOMAIN data : param \in DOMAIN data[i].measurements}
    IN  IF having = {} THEN {}
        ELSE {data[CHOOSE i \in having : \A j \in having : i <= j].measurements[param]}

\* _get_tapse_value: TAPSE_dist of the right-ventricle M-mode view only;
\* round(raw * 10) / 10 and _format_tapse keep a length given in tenths
get_tapse_value(data) ==
    LET rv == {i \in DOMAIN data :
                  /\ data[i].view = "rv_mmode"
                  /\ "TAPSE_dist" \in DOMAIN data[i].measurements}
    IN  {data[i].measurements["TAPSE_dist"] : i \in rv}

\* the velocity taken as metres per second already
calculate_pulmonary_pressure_ms(velocity) ==
    4 * velocity * velocity + 3

\* round(4 * (velocity / 100) ** 2 + 3): for a whole number of cm/s the value
\* is never halfway between two integers
calculate_pulmonary_pressure(velocity) ==
    (4 * velocity * velocity + 30000 + 5000) \div 10000

\* normal_ranges[...][1], in tenths of a centimetre
LA_short_max == 40

LA_length_max == 50

RA_short_max == 40

RA_length_max == 51

\* measurements.get(key) > limit: None > float raises TypeError
Missing(m, key) == key \notin DOMAIN m

\* mutant: a value equal to the limit counts as enlarged
ExceedsOrEquals(m, key, limit) == m[key] >= limit

Exceeds(m, key, limit) == m[key] > limit

\* `a > x or b > y` evaluates b only when the first comparison is false
EitherRaises(m, k1, l1, k2) ==
    Missing(m, k1) \/ (~Exceeds(m, k1, l1) /\ Missing(m, k2))

Either(m, k1, l1, k2, l2) == Exceeds(m, k1, l1) \/ Exceeds(m, k2, l2)

ChamberRaises(m) ==
    \/ EitherRaises(m, "LA_short", LA_short_max, "LA_length")
    \/ EitherRaises(m, "RA_short", RA_short_max, "RA_length")

\* the results list of _evaluate_chamber_size
ChamberResults(m) ==
    (IF Either(m, "LA_short", LA_short_max, "LA_length", LA_length_max)
     THEN <<"LA_enlarged">> ELSE <<>>)
    \o (IF Either(m, "RA_short", RA_short_max, "RA_length", RA_length_max)
        THEN <<"RA_enlarged">> ELSE <<>>)

\* "左房扩大, 右房扩大，余房室腔大小正常。" / "各房室腔大小正常。"
evaluate_chamber_size(m) ==
    IF ChamberResults(m) # <<>>
    THEN Line("chamber", <<>>, ChamberResults(m) \o <<"rest_normal">>)
    ELSE Line("chamber", <<>>, <<"all_normal">>)

\* the loop of lines 432-435: the measurements of the chamber view, else None
ChamberData(data) ==
    {data[i].measurements : i \in {j \in DOMAIN data : data[j].view = "chamber_2d"}}

\* `if chamber_data:` is false for None and for an empty dict
ChamberTruthy(data) == \E m \in ChamberData(data) : DOMAIN m # {}

OptionalLine(kind, found) ==
    IF found = {} THEN <<>> ELSE <<Line(kind, <<CHOOSE v \in found : TRUE>>, <<>>)>>

\* `if ea and ea < 1`, `if ivs and ivs > 11`: 0 and None are both false
Truthy(found) == found # {} /\ found # {0}

SectionOne(data) ==
    IF ChamberTruthy(data)
    THEN <<evaluate_chamber_size(CHOOSE m \in ChamberData(data) : TRUE)>>
    ELSE <<Line("1.chamber", <<>>, <<"all_normal">>)>>

SectionFour(data) ==
    LET parts == OptionalLine("E/A", get_measurement_value(data, "E/A"))
                 \o OptionalLine("EDT", get_measurement_value(data, "EDT"))
                 \o OptionalLine("E/e'", get_measurement_value(data, "E_Med_E"))
    IN  IF parts = <<>> THEN <<>>
        ELSE <<Line("diastolic", [i \in DOMAIN parts |-> parts[i].nums[1]],
                    [i \in DOMAIN parts |-> parts[i].kind])>>

SectionSeven(data) ==
    LET v == get_measurement_value(data, "tr_velocity")
    IN  IF v # {}
        THEN <<Line("pressure",
                    <<calculate_pulmonary_pressure(CHOOSE x \in v : TRUE)>>, <<>>)>>
        ELSE <<Line("cannot_compute", <<>>, <<>>)>>

Diagnoses(data) ==
    LET ivs == get_measurement_value(data, "IVS")
        ea == get_measurement_value(data, "E/A")
    IN  (IF Truthy(ivs) /\ (CHOOSE x \in ivs : TRUE) > 11
         THEN <<"septal_hypertrophy">> ELSE <<>>)
        \o (IF Truthy(ea) /\ (CHOOSE x \in ea : TRUE) < 10
            THEN <<"diastolic_impaired">> ELSE <<>>)

Summary(data) ==
    IF Diagnoses(data) # <<>>
    THEN Line("diagnoses", <<>>, Diagnoses(data))
    ELSE Line("diagnoses", <<>>, <<"no_abnormality">>)

ReportLines(data) ==
    <<Line("title", <<>>, <<>>), Line("rule", <<>>, <<>>)>>
    \o SectionOne(data)
    \o <<Line("2.header", <<>>, <<>>), Line("wall_motion_normal", <<>>, <<>>)>>
    \o <<Line("3.header", <<>>, <<>>)>>
    \o OptionalLine("e'", get_measurement_value(data, "e_velocity"))
    \o <<Line("4.header", <<>>, <<>>)>>
    \o SectionFour(data)
    \o <<Line("5.header", <<>>, <<>>)>>
    \o OptionalLine("EDV", get_measurement_value(data, "EDV"))
    \o OptionalLine("LVEF", get_measurement_value(data, "LVEF"))
    \o <<Line("6.header", <<>>, <<>>)>>
    \o OptionalLine("TAPSE", get_tapse_value(data))
    \o <<Line("7.header", <<>>, <<>>)>>
    \o SectionSeven(data)
    \o <<Line("summary_header", <<>>, <<>>), Line("rule", <<>>, <<>>)>>
    \o <<Summary(data)>>

\* the only statement of generate_report that can raise is the call of
\* _evaluate_chamber_size
GenerateRaises(data) ==
    ChamberTruthy(data) /\ ChamberRaises(CHOOSE m \in ChamberData(data) : TRUE)

generate_report(data) ==
    IF GenerateRaises(data)
    THEN [state |-> "raised", lines |-> <<>>]
    ELSE [state |-> "returned", lines |-> ReportLines(data)]

NoReport == [state |-> "none", lines |-> <<>>]

\* process_images stores the parsed text of one more view
RecognizeView ==
    /\ rp_out = NoReport
    /\ Len(rp_data) < MaxViews
    /\ \E t \in MeasurementViews, text \in Screens :
        /\ type_name_map(t) \notin Views(rp_data)
        /\ rp_data' = Append(rp_data,
                             [view |-> type_name_map(t),
                              measurements |-> parse_ultrasound_data(text)])
    /\ UNCHANGED <<rp_out, exceptRp>>

GenerateReport ==
    /\ rp_out = NoReport
    /\ rp_out' = generate_report(rp_data)
    /\ UNCHANGED <<rp_data, exceptRp>>

NextReport == RecognizeView \/ GenerateReport

(***************************************************************************)
(* C18, C19: helpers of the statements.                                    *)
(***************************************************************************)
Reverse(s) == [i \in DOMAIN s |-> s[Len(s) + 1 - i]]

Parameters ==
    {"RA_length", "RA_short", "LA_length", "LA_short", "TAPSE_dist", "EDV", "ESV",
     "LVEF", "FS", "IVS", "e_velocity", "E_Med_E", "EDT", "E/A", "tr_velocity",
     "pg"}

SectionKinds ==
    {"chamber", "1.chamber", "2.header", "3.header", "4.header", "5.header",
     "6.header", "7.header", "summary_header", "diagnoses"}

KindsOf(lines) ==
    LET kept == SelectSeq(lines, LAMBDA l : l.kind \in SectionKinds)
    IN  [i \in DOMAIN kept |-> IF kept[i].kind = "1.chamber" THEN "chamber"
                                ELSE kept[i].kind]

(***************************************************************************)
(* C18: no parameter is in the MeasurementSet of two views of a case, and   *)
(* _get_measurement_value gives the same value for the views in the         *)
(* opposite order.                                                          *)
(***************************************************************************)
C18_ViewExclusive ==
    /\ \A i, j \in DOMAIN rp_data :
          i # j => DOMAIN rp_data[i].measurements
                       \cap DOMAIN rp_data[j].measurements = {}
    /\ \A p \in Parameters :
          get_measurement_value(rp_data, p)
              = get_measurement_value(Reverse(rp_data), p)

(***************************************************************************)
(* C19: generate_report never raises, whatever views were recognized, and   *)
(* what it returns has the chamber statement, the headers of sections 2 to  *)
(* 7 and the diagnosis summary, in that order.                              *)
(***************************************************************************)
C19_ReportNeverRaises ==
    /\ rp_out.state # "raised"
    /\ rp_out.state = "returned" =>
          KindsOf(rp_out.lines) =
              <<"chamber", "2.header", "3.header", "4.header", "5.header",
                "6.header", "7.header", "summary_header", "diagnoses">>

(***************************************************************************)
(* _evaluate_chamber_size on its own, for every choice of the four sizes   *)
(* around the limits.                                                      *)
(***************************************************************************)
ChamberValues == {30, 40, 41, 45, 50, 51, 52}

NotEvaluated == [done |-> FALSE, line |-> Line("none", <<>>, <<>>)]

EvaluateChamber ==
    /\ ~ec_out.done
    /\ ec_out' = [done |-> TRUE, line |-> evaluate_chamber_size(ec_in)]
    /\ UNCHANGED <<ec_in, exceptEc>>

(***************************************************************************)
(* C20: _evaluate_chamber_size reports left-atrium enlargement exactly      *)
(* when LA_short > 4.0 or LA_length > 5.0 and right-atrium enlargement      *)
(* exactly when RA_short > 4.0 or RA_length > 5.1, each on its own, and     *)
(* that all chambers are normal when neither holds.                         *)
(***************************************************************************)
C20_ChamberLimits ==
    ec_out.done =>
        LET la == ec_in["LA_short"] > 40 \/ ec_in["LA_length"] > 50
            ra == ec_in["RA_short"] > 40 \/ ec_in["RA_length"] > 51
            said == {ec_out.line.words[i] : i \in DOMAIN ec_out.line.words}
        IN  /\ "LA_enlarged" \in said <=> la
            /\ "RA_enlarged" \in said <=> ra
            /\ "all_normal" \in said <=> ~la /\ ~ra
            /\ "rest_normal" \in said <=> la \/ ra

\* LA_short = 4.5, LA_length = 4.5, RA_short = 3.0, RA_length = 3.0: only the
\* left atrium is reported
C20_Witness ==
    /\ ec_out.done
    /\ ec_in["LA_short"] = 45 /\ ec_in["LA_length"] = 45
    /\ ec_in["RA_short"] = 30 /\ ec_in["RA_length"] = 30
    /\ ec_out.line.words = <<"LA_enlarged", "rest_normal">>

\* every size equal to its limit: all normal
C20_LimitWitness ==
    /\ ec_out.done
    /\ ec_in["LA_short"] = 40 /\ ec_in["LA_length"] = 50
    /\ ec_in["RA_short"] = 40 /\ ec_in["RA_length"] = 51
    /\ ec_out.line.words = <<"all_normal">>

(***************************************************************************)
(* C21: helpers of the statement.  A pressure p in mmHg is the rounding of  *)
(* 4 * (v / 100) ** 2 + 3 when it is within one half of it, that is, when   *)
(* 10000 * p is within 5000 of 4 * v * v + 30000.                           *)
(***************************************************************************)
Distance(a, b) == IF a >= b THEN a - b ELSE b - a

RoundsPressure(p, v) == Distance(10000 * p, 4 * v * v + 30000) <= 5000

LinesOfKind(lines, kind) == SelectSeq(lines, LAMBDA l : l.kind = kind)

TrVelocities(data) ==
    {data[i].measurements["tr_velocity"] :
        i \in {j \in DOMAIN data : "tr_velocity" \in DOMAIN data[j].measurements}}

(***************************************************************************)
(* C21: in a report that generate_report returns, section 7 is one line:    *)
(* when some view measured tr_velocity it is the pressure                   *)
(* round(4 * (v / 100) ** 2 + 3) of such a velocity v given in cm/s, and    *)
(* when no view measured it, it is the line saying that the pressure cannot *)
(* be computed.                                                             *)
(***************************************************************************)
C21_PulmonaryPressure ==
    rp_out.state = "returned" =>
        LET pressure == LinesOfKind(rp_out.lines, "pressure")
            cannot == LinesOfKind(rp_out.lines, "cannot_compute")
        IN  IF TrVelocities(rp_data) # {}
            THEN /\ cannot = <<>>
                 /\ Len(pressure) = 1
                 /\ \E v \in TrVelocities(rp_data) :
                        /\ Len(pressure[1].nums) = 1
                        /\ RoundsPressure(pressure[1].nums[1], v)
            ELSE /\ pressure = <<>>
                 /\ Len(cannot) = 1

\* a velocity of 100 cm/s is reported as 4 * 1 + 3 = 7 mmHg
C21_Witness ==
    /\ rp_out.state = "returned"
    /\ TrVelocities(rp_data) = {100}
    /\ \E i \in DOMAIN rp_out.lines :
        rp_out.lines[i] = Line("pressure", <<7>>, <<>>)

\* no view measured the velocity and the report says so
C21_AbsentWitness ==
    /\ rp_out.state = "returned"
    /\ rp_data # <<>>
    /\ TrVelocities(rp_data) = {}
    /\ \E i \in DOMAIN rp_out.lines :
        rp_out.lines[i] = Line("cannot_compute", <<>>, <<>>)

(***************************************************************************)
(* C22: helpers of the statement.                                          *)
(***************************************************************************)
ValuesOf(data, param) ==
    {data[i].measurements[param] :
        i \in {j \in DOMAIN data : param \in DOMAIN data[j].measurements}}

SummaryWords(lines) ==
    LET found == LinesOfKind(lines, "diagnoses")
    IN  IF found = <<>> THEN <<>> ELSE found[Len(found)].words

Thickened(data) == \E x \in ValuesOf(data, "IVS") : x > 11

\* E/A is kept in tenths: below 1 is below 10, and 0 is below 1
Impaired(data) == \E x \in ValuesOf(data, "E/A") : x < 10

\* at most one view of the case measured the parameter
OneSource(data, param) ==
    Cardinality({j \in DOMAIN data : param \in DOMAIN data[j].measurements}) <= 1

(***************************************************************************)
(* C22: in a report that generate_report returns for views of which at most *)
(* one measured IVS and at most one measured E/A, the diagnosis summary     *)
(* names septal hypertrophy exactly when IVS is present and above 11 mm,    *)
(* then reduced diastolic function exactly when E/A is present and below 1  *)
(* (an E/A of 0 included), and says that there is no obvious abnormality    *)
(* exactly when neither holds.                                              *)
(***************************************************************************)
C22_DiagnosisSummary ==
    (/\ rp_out.state = "returned"
     /\ OneSource(rp_data, "IVS")
     /\ OneSource(rp_data, "E/A")) =>
        SummaryWords(rp_out.lines) =
            IF ~Thickened(rp_data) /\ ~Impaired(rp_data)
            THEN <<"no_abnormality">>
            ELSE (IF Thickened(rp_data) THEN <<"septal_hypertrophy">> ELSE <<>>)
                 \o (IF Impaired(rp_data) THEN <<"diastolic_impaired">> ELSE <<>>)

(***************************************************************************)
(* C23: a detect request in which some image gives a vote is not ended by   *)
(* the images that give none (unmapped view, missing model file, image that *)
(* cannot be fetched or decoded): it does not answer with a classification  *)
(* error, and the views handed on after the aggregation are views of the    *)
(* case that the classifiers cover.                                         *)
(***************************************************************************)
C23_UnusableImagesSkipped ==
    /\ last.usable => last.error \notin {"image_unreadable", "no_usable_views"}
    /\ pc = "gradcam" => camLeft \subseteq images \cap ClassifierViews

(***************************************************************************)
(* segment_and_save_masks, lines 262-329: the findings of the views of a    *)
(* case, one image record after the other                                   *)
(***************************************************************************)
\* (pred_mask == index).sum(): none, the threshold, one more
FindingCounts == {0, 100, 101}

NoView == [image_type |-> 0, tv |-> 0, ao |-> 0, before |-> <<>>]

\* one pass of the loop for a record of a view with a segmentation model
SegmentView ==
    \E t \in sf_todo, tv \in FindingCounts, ao \in FindingCounts :
        /\ sf_todo' = sf_todo \ {t}
        /\ sf_concl' = AddFindings(t, sf_concl, tv, ao)
        /\ sf_view' = [image_type |-> t, tv |-> tv, ao |-> ao, before |-> sf_concl]
        /\ UNCHANGED exceptSf

(***************************************************************************)
(* C24: helpers of the statement.                                          *)
(***************************************************************************)
ViewsWithTV == {1, 3}

ViewsWithAorta == {3, 4}

Added(phrase) == InSeq(phrase, sf_concl) /\ ~InSeq(phrase, sf_view.before)

(***************************************************************************)
(* C24: a pass of segment_and_save_masks for one view only appends finding  *)
(* phrases to the conclusion, and only for image types 3 and 4: the         *)
(* tricuspid phrase is appended only when the view's class list has TV and  *)
(* more than 100 pixels are TV, the aortic phrase only when the class list  *)
(* has Aorta and more than 100 pixels are Aorta; counts of 100 or fewer and *)
(* views of types 1 and 2 leave the conclusion as it was.  A phrase that is *)
(* due and not yet in the conclusion is appended.                           *)
(***************************************************************************)
C24_FindingThreshold ==
    sf_view # NoView =>
        /\ Added("TR") => /\ sf_view.image_type \in {3, 4} \cap ViewsWithTV
                          /\ sf_view.tv > 100
        /\ Added("AR") => /\ sf_view.image_type \in {3, 4} \cap ViewsWithAorta
                          /\ sf_view.ao > 100
        /\ (sf_view.image_type = 3 /\ sf_view.tv > 100) => InSeq("TR", sf_concl)
        /\ (sf_view.image_type \in {3, 4} /\ sf_view.ao > 100)
              => InSeq("AR", sf_concl)
        /\ sf_concl = sf_view.before
                        \o (IF Added("TR") THEN <<"TR">> ELSE <<>>)
                        \o (IF Added("AR") THEN <<"AR">> ELSE <<>>)

\* exactly 100 pixels of each class in a reflux view add nothing
C24_Witness ==
    /\ sf_view.image_type = 3
    /\ sf_view.tv = 100
    /\ sf_view.ao = 100
    /\ sf_concl = sf_view.before

\* 101 pixels add the phrase
C24_AddedWitness ==
    /\ sf_view.image_type = 4
    /\ sf_view.ao = 101
    /\ Added("AR")

\* a view of type 1, whose class list has TV, adds nothing with 101 pixels
C24_PlainViewWitness ==
    /\ sf_view.image_type = 1
    /\ sf_view.tv = 101
    /\ sf_concl = sf_view.before

(***************************************************************************)
(* C25: helpers of the statement.                                          *)
(***************************************************************************)
\* the kind of overlay a row points to, read off its file path
KindOfRow(d) == d.file_path[1]

TypeCodes(rows, kind) == {d.image_type : d \in {e \in rows : KindOfRow(e) = kind}}

Users == {1, 2}

CaseIds == 1..MaxCases

RowIds == 1..MaxRows

\* one view with a classifier and a segmentation model
ApImageTypes == {3}

\* artifact codes of that view's overlays: segmentation, saliency
ApOverlayTypes == {t : t \in ApImageTypes} \cup {GradCamImageType(t) : t \in ApImageTypes}

\* what an update or a run writes over the "first" of a new row
ApTexts == {"second"}

CaseOf(case_id) == {c \in ap_cases : c.id = case_id}

ResultOf(result_id) == {r \in ap_results : r.id = result_id}

UltrasoundImageOf(image_id) == {i \in ap_images : i.id = image_id}

DetectionImageOf(image_id) == {d \in ap_detImages : d.id = image_id}

The(rows) == CHOOSE r \in rows : TRUE

\* .first() of a query without order_by: the row with the lowest id
First(rows) == {r \in rows : \A s \in rows : r.id <= s.id}

Ref(table, rows) == {<<table, r.id>> : r \in rows}

ApResponse(endpoint, code, user, cs, body) ==
    [endpoint |-> endpoint, status |-> code, user |-> user,
     case |-> IF cs = {} THEN 0 ELSE The(cs).id,
     owner |-> IF cs = {} THEN 0 ELSE The(cs).user_id,
     body |-> body, removed |-> {}]

\* the answer of a request that deleted rows, with the rows it deleted
Removing(response, refs) == [response EXCEPT !.removed = refs]

NoRequest == [endpoint |-> "none", status |-> 0, user |-> 0, case |-> 0,
              owner |-> 0, body |-> {}, removed |-> {}]

\* mutant: deleting a result leaves its detection images
ResultOrphansKept(rs) == {}

\* cascade="all, delete-orphan" of DetectionResult.detection_images
ResultOrphans(rs) == {d \in ap_detImages : d.result_id \in {r.id : r \in rs}}

\* cascade="all, delete-orphan" of Case.detection_results
CaseResults(cs) == {r \in ap_results : r.case_id \in {c.id : c \in cs}}

\* cascade="all, delete-orphan" of Case.ultrasound_images
CaseImages(cs) == {i \in ap_images : i.case_id \in {c.id : c \in cs}}

\* if not case: 404; if case.user_id != current_user.id: 403; 0: passed
OwnerCheck(user, cs) ==
    IF cs = {} THEN 404
    ELSE IF The(cs).user_id # user THEN 403 ELSE 0

\* the check of a row found by its id: 404 when the row is missing, then the
\* owner of its case
RowCheck(user, rows, cs) ==
    IF rows = {} THEN 404
    ELSE IF The(cs).user_id # user THEN 403 ELSE 0

\* read_ultrasound_images names status.HTTP_403_FORßBIDDEN, an attribute the
\* status module does not have: evaluating it raises AttributeError, which
\* the server answers with 500
OwnerCheckMisspelt(user, cs) ==
    IF cs = {} THEN 404
    ELSE IF The(cs).user_id # user THEN 500 ELSE 0

\* read_case has the existence check only
ExistenceCheck(cs) == IF cs = {} THEN 404 ELSE 0

ap_tables == <<ap_cases, ap_images, ap_results, ap_detImages, ap_next>>

(***************************************************************************)
(* cases.py                                                                *)
(***************************************************************************)
CreateCase ==
    /\ ap_next.case <= MaxCases
    /\ \E user \in Users :
        /\ ap_cases' = ap_cases \cup
                         {[id |-> ap_next.case, user_id |-> user, name |-> "first"]}
        /\ ap_next' = [ap_next EXCEPT !.case = @ + 1]
        /\ ap_last' = ApResponse("create_case", 200, user, {},
                                 {<<"case", ap_next.case>>})
    /\ UNCHANGED <<ap_images, ap_results, ap_detImages, exceptAp>>

ReadCases ==
    /\ \E user \in Users :
        ap_last' = ApResponse("read_cases", 200, user, {},
                              Ref("case", {c \in ap_cases : c.user_id = user}))
    /\ UNCHANGED <<ap_tables, exceptAp>>

ReadCase ==
    /\ \E user \in Users, case_id \in CaseIds :
        LET cs == CaseOf(case_id)
            check == ExistenceCheck(cs)
        IN  ap_last' = IF check # 0
                       THEN ApResponse("read_case", check, user, cs, {})
                       ELSE ApResponse("read_case", 200, user, cs, Ref("case", cs))
    /\ UNCHANGED <<ap_tables, exceptAp>>

UpdateCase ==
    /\ \E user \in Users, case_id \in CaseIds, name \in ApTexts :
        LET cs == CaseOf(case_id)
            check == OwnerCheck(user, cs)
        IN  IF check # 0
            THEN /\ ap_last' = ApResponse("update_case", check, user, cs, {})
                 /\ UNCHANGED ap_cases
            ELSE /\ ap_cases' = (ap_cases \ cs) \cup {[The(cs) EXCEPT !.name = name]}
                 /\ ap_last' = ApResponse("update_case", 200, user, cs,
                                          Ref("case", cs))
    /\ UNCHANGED <<ap_images, ap_results, ap_detImages, ap_next, exceptAp>>

\* db.delete(case): the ORM deletes the case's images and results, and with
\* each result its detection images
DeleteCase ==
    /\ \E user \in Users, case_id \in CaseIds :
        LET cs == CaseOf(case_id)
            check == OwnerCheck(user, cs)
        IN  IF check # 0
            THEN /\ ap_last' = ApResponse("delete_case", check, user, cs, {})
                 /\ UNCHANGED <<ap_cases, ap_images, ap_results, ap_detImages>>
            ELSE /\ ap_cases' = ap_cases \ cs
                 /\ ap_images' = ap_images \ CaseImages(cs)
                 /\ ap_results' = ap_results \ CaseResults(cs)
                 /\ ap_detImages' = ap_detImages \ ResultOrphans(CaseResults(cs))
                 /\ ap_last' = Removing(ApResponse("delete_case", 200, user, cs,
                                                   Ref("case", cs)),
                                        Ref("case", cs)
                                        \cup Ref("ultrasound_image", CaseImages(cs))
                                        \cup Ref("detection_result", CaseResults(cs))
                                        \cup Ref("detection_image",
                                                 ResultOrphans(CaseResults(cs))))
    /\ UNCHANGED <<ap_next, exceptAp>>

(***************************************************************************)
(* ultrasound_images.py                                                    *)
(***************************************************************************)
\* one row per (case_id, image_type): a second upload keeps the row
UploadUltrasoundImage ==
    /\ \E user \in Users, case_id \in CaseIds, image_type \in ApImageTypes :
        LET cs == CaseOf(case_id)
            check == OwnerCheck(user, cs)
            existing == First({i \in ap_images : /\ i.case_id = case_id
                                                 /\ i.image_type = image_type})
        IN  IF check # 0
            THEN /\ ap_last' = ApResponse("upload_ultrasound_image", check, user,
                                          cs, {})
                 /\ UNCHANGED <<ap_images, ap_next>>
            ELSE IF existing # {}
            THEN /\ ap_last' = ApResponse("upload_ultrasound_image", 200, user,
                                          cs, Ref("ultrasound_image", existing))
                 /\ UNCHANGED <<ap_images, ap_next>>
            ELSE /\ ap_next.image <= MaxRows
                 /\ ap_images' = ap_images \cup
                        {[id |-> ap_next.image, case_id |-> case_id,
                          image_type |-> image_type]}
                 /\ ap_next' = [ap_next EXCEPT !.image = @ + 1]
                 /\ ap_last' = ApResponse("upload_ultrasound_image", 200, user,
                                          cs, {<<"ultrasound_image", ap_next.image>>})
    /\ UNCHANGED <<ap_cases, ap_results, ap_detImages, exceptAp>>

ReadUltrasoundImages ==
    /\ \E user \in Users, case_id \in CaseIds :
        LET cs == CaseOf(case_id)
            check == OwnerCheckMisspelt(user, cs)
        IN  ap_last' = IF check # 0
                       THEN ApResponse("read_ultrasound_images", check, user, cs, {})
                       ELSE ApResponse("read_ultrasound_images", 200, user, cs,
                                       Ref("ultrasound_image", CaseImages(cs)))
    /\ UNCHANGED <<ap_tables, exceptAp>>

ReadUltrasoundImage ==
    /\ \E user \in Users, image_id \in RowIds :
        LET rows == UltrasoundImageOf(image_id)
            cs == {c \in ap_cases : \E i \in rows : c.id = i.case_id}
            check == RowCheck(user, rows, cs)
        IN  ap_last' = IF check # 0
                       THEN ApResponse("read_ultrasound_image", check, user, cs, {})
                       ELSE ApResponse("read_ultrasound_image", 200, user, cs,
                                       Ref("ultrasound_image", rows))
    /\ UNCHANGED <<ap_tables, exceptAp>>

DeleteUltrasoundImage ==
    /\ \E user \in Users, image_id \in RowIds :
        LET rows == UltrasoundImageOf(image_id)
            cs == {c \in ap_cases : \E i \in rows : c.id = i.case_id}
            check == RowCheck(user, rows, cs)
        IN  IF check # 0
            THEN /\ ap_last' = ApResponse("delete_ultrasound_image", check, user,
                                          cs, {})
                 /\ UNCHANGED ap_images
            ELSE /\ ap_images' = ap_images \ rows
                 /\ ap_last' = Removing(ApResponse("delete_ultrasound_image", 200,
                                                   user, cs,
                                                   Ref("ultrasound_image", rows)),
                                        Ref("ultrasound_image", rows))
    /\ UNCHANGED <<ap_cases, ap_results, ap_detImages, ap_next, exceptAp>>

(***************************************************************************)
(* detection_results.py                                                    *)
(***************************************************************************)
CreateDetectionResult ==
    /\ \E user \in Users, case_id \in CaseIds :
        LET cs == CaseOf(case_id)
            check == OwnerCheck(user, cs)
        IN  IF check # 0
            THEN /\ ap_last' = ApResponse("create_detection_result", check, user,
                                          cs, {})
                 /\ UNCHANGED <<ap_results, ap_next>>
            ELSE /\ ap_next.result <= MaxRows
                 /\ ap_results' = ap_results \cup
                        {[id |-> ap_next.result, case_id |-> case_id,
                          conclusion |-> "first"]}
                 /\ ap_next' = [ap_next EXCEPT !.result = @ + 1]
                 /\ ap_last' = ApResponse("create_detection_result", 200, user, cs,
                                          {<<"detection_result", ap_next.result>>})
    /\ UNCHANGED <<ap_cases, ap_images, ap_detImages, exceptAp>>

ReadDetectionResults ==
    /\ \E user \in Users, case_id \in CaseIds :
        LET cs == CaseOf(case_id)
            check == OwnerCheck(user, cs)
        IN  ap_last' = IF check # 0
                       THEN ApResponse("read_detection_results", check, user, cs, {})
                       ELSE ApResponse("read_detection_results", 200, user, cs,
                                       Ref("detection_result", CaseResults(cs)))
    /\ UNCHANGED <<ap_tables, exceptAp>>

ReadDetectionResult ==
    /\ \E user \in Users, result_id \in RowIds :
        LET rows == ResultOf(result_id)
            cs == {c \in ap_cases : \E r \in rows : c.id = r.case_id}
            check == RowCheck(user, rows, cs)
        IN  ap_last' = IF check # 0
                       THEN ApResponse("read_detection_result", check, user, cs, {})
                       ELSE ApResponse("read_detection_result", 200, user, cs,
                                       Ref("detection_result", rows))
    /\ UNCHANGED <<ap_tables, exceptAp>>

PutDetectionResult ==
    /\ \E user \in Users, result_id \in RowIds, text \in ApTexts :
        LET rows == ResultOf(result_id)
            cs == {c \in ap_cases : \E r \in rows : c.id = r.case_id}
            check == RowCheck(user, rows, cs)
        IN  IF check # 0
            THEN /\ ap_last' = ApResponse("update_detection_result", check, user,
                                          cs, {})
                 /\ UNCHANGED ap_results
            ELSE /\ ap_results' = (ap_results \ rows)
                                    \cup {[The(rows) EXCEPT !.conclusion = text]}
                 /\ ap_last' = ApResponse("update_detection_result", 200, user, cs,
                                          Ref("detection_result", rows))
    /\ UNCHANGED <<ap_cases, ap_images, ap_detImages, ap_next, exceptAp>>

\* db.delete(detection_result): the ORM deletes its detection images with it
DeleteDetectionResult ==
    /\ \E user \in Users, result_id \in RowIds :
        LET rows == ResultOf(result_id)
            cs == {c \in ap_cases : \E r \in rows : c.id = r.case_id}
            check == RowCheck(user, rows, cs)
        IN  IF check # 0
            THEN /\ ap_last' = ApResponse("delete_detection_result", check, user,
                                          cs, {})
                 /\ UNCHANGED <<ap_results, ap_detImages>>
            ELSE /\ ap_results' = ap_results \ rows
                 /\ ap_detImages' = ap_detImages \ ResultOrphans(rows)
                 /\ ap_last' = Removing(ApResponse("delete_detection_result", 200,
                                                   user, cs,
                                                   Ref("detection_result", rows)),
                                        Ref("detection_result", rows)
                                        \cup Ref("detection_image",
                                                 ResultOrphans(rows)))
    /\ UNCHANGED <<ap_cases, ap_images, ap_next, exceptAp>>

ReadDetectionResultsWithImage ==
    /\ \E user \in Users, case_id \in CaseIds :
        LET cs == CaseOf(case_id)
            check == OwnerCheck(user, cs)
        IN  ap_last' = IF check # 0
                       THEN ApResponse("read_detection_results_with_image", check,
                                       user, cs, {})
                       ELSE ApResponse("read_detection_results_with_image", 200,
                                       user, cs,
                                       Ref("detection_result", CaseResults(cs))
                                       \cup Ref("detection_image",
                                                ResultOrphans(CaseResults(cs))))
    /\ UNCHANGED <<ap_tables, exceptAp>>

(***************************************************************************)
(* detection_images.py                                                     *)
(***************************************************************************)
UploadDetectionImage ==
    /\ \E user \in Users, result_id \in RowIds, image_type \in ApOverlayTypes :
        LET rows == ResultOf(result_id)
            cs == {c \in ap_cases : \E r \in rows : c.id = r.case_id}
            check == RowCheck(user, rows, cs)
        IN  IF check # 0
            THEN /\ ap_last' = ApResponse("upload_detection_image", check, user,
                                          cs, {})
                 /\ UNCHANGED <<ap_detImages, ap_next>>
            ELSE /\ ap_next.detImage <= MaxRows
                 /\ ap_detImages' = ap_detImages \cup
                        {[id |-> ap_next.detImage, result_id |-> result_id,
                          image_type |-> image_type,
                          file_path |-> ArtifactPath("upload", result_id, image_type),
                          created_at |-> 0]}
                 /\ ap_next' = [ap_next EXCEPT !.detImage = @ + 1]
                 /\ ap_last' = ApResponse("upload_detection_image", 200, user, cs,
                                          {<<"detection_image", ap_next.detImage>>})
    /\ UNCHANGED <<ap_cases, ap_images, ap_results, exceptAp>>

ReadDetectionImages ==
    /\ \E user \in Users, result_id \in RowIds :
        LET rows == ResultOf(result_id)
            cs == {c \in ap_cases : \E r \in rows : c.id = r.case_id}
            check == RowCheck(user, rows, cs)
        IN  ap_last' = IF check # 0
                       THEN ApResponse("read_detection_images", check, user, cs, {})
                       ELSE ApResponse("read_detection_images", 200, user, cs,
                                       Ref("detection_image", ResultOrphans(rows)))
    /\ UNCHANGED <<ap_tables, exceptAp>>

ReadDetectionImage ==
    /\ \E user \in Users, image_id \in RowIds :
        LET rows == DetectionImageOf(image_id)
            rs == {r \in ap_results : \E d \in rows : r.id = d.result_id}
            cs == {c \in ap_cases : \E r \in rs : c.id = r.case_id}
            check == RowCheck(user, rows, cs)
        IN  ap_last' = IF check # 0
                       THEN ApResponse("read_detection_image", check, user, cs, {})
                       ELSE ApResponse("read_detection_image", 200, user, cs,
                                       Ref("detection_image", rows))
    /\ UNCHANGED <<ap_tables, exceptAp>>

DeleteDetectionImage ==
    /\ \E user \in Users, image_id \in RowIds :
        LET rows == DetectionImageOf(image_id)
            rs == {r \in ap_results : \E d \in rows : r.id = d.result_id}
            cs == {c \in ap_cases : \E r \in rs : c.id = r.case_id}
            check == RowCheck(user, rows, cs)
        IN  IF check # 0
            THEN /\ ap_last' = ApResponse("delete_detection_image", check, user,
                                          cs, {})
                 /\ UNCHANGED ap_detImages
            ELSE /\ ap_detImages' = ap_detImages \ rows
                 /\ ap_last' = Removing(ApResponse("delete_detection_image", 200,
                                                   user, cs,
                                                   Ref("detection_image", rows)),
                                        Ref("detection_image", rows))
    /\ UNCHANGED <<ap_cases, ap_images, ap_results, ap_next, exceptAp>>

(***************************************************************************)
(* model_detection.py: the detect endpoint over the tables of all cases.    *)
(* What the run computes is left open here: it ends before its first        *)
(* commit, or it has committed the result of the case and the overlays of   *)
(* the artifact codes in `done` when it ends.                               *)
(***************************************************************************)
RECURSIVE UpsertOverlays(_, _, _, _)
UpsertOverlays(rows, result_id, codes, newId) ==
    IF codes = {} THEN [rows |-> rows, next |-> newId]
    ELSE LET t == CHOOSE x \in codes : \A y \in codes : x <= y
         IN  UpsertOverlays(
                 UpsertImage(rows, result_id, t,
                             ArtifactPath("overlay", result_id, t), 0, newId),
                 result_id, codes \ {t},
                 ImageIdAfter(rows, result_id, t, newId))

DetectDisease ==
    /\ \E user \in Users, case_id \in CaseIds :
        LET cs == CaseOf(case_id)
            check == OwnerCheck(user, cs)
            existing == First(CaseResults(cs))
        IN  IF check # 0
            THEN /\ ap_last' = ApResponse("detect_disease", check, user, cs, {})
                 /\ UNCHANGED <<ap_results, ap_detImages, ap_next>>
            ELSE \/ /\ \E code \in {400, 500} :
                         ap_last' = ApResponse("detect_disease", code, user, cs, {})
                    /\ UNCHANGED <<ap_results, ap_detImages, ap_next>>
                 \/ \E done \in SUBSET ApOverlayTypes, code \in {200, 500},
                       text \in ApTexts :
                      LET result_id == IF existing # {} THEN The(existing).id
                                       ELSE ap_next.result
                          after == UpsertOverlays(ap_detImages, result_id, done,
                                                  ap_next.detImage)
                          written ==
                              IF existing # {}
                              THEN (ap_results \ existing)
                                     \cup {[The(existing) EXCEPT !.conclusion = text]}
                              ELSE ap_results \cup
                                     {[id |-> result_id, case_id |-> case_id,
                                       conclusion |-> text]}
                          mine == {r \in written : r.case_id = case_id}
                      IN  /\ existing = {} => ap_next.result <= MaxRows
                          /\ after.next <= MaxRows + 1
                          /\ ap_results' = written
                          /\ ap_detImages' = after.rows
                          /\ ap_next' = [ap_next EXCEPT
                                           !.result = IF existing # {} THEN @ ELSE @ + 1,
                                           !.detImage = after.next]
                          /\ ap_last' =
                               IF code = 200
                               THEN ApResponse("detect_disease", 200, user, cs,
                                        Ref("detection_result", mine)
                                        \cup Ref("detection_image",
                                                 {d \in after.rows :
                                                    \E r \in mine :
                                                       d.result_id = r.id}))
                               ELSE ApResponse("detect_disease", 500, user, cs, {})
    /\ UNCHANGED <<ap_cases, ap_images, exceptAp>>

NextApi ==
    \/ CreateCase
    \/ ReadCases
    \/ ReadCase
    \/ UpdateCase
    \/ DeleteCase
    \/ UploadUltrasoundImage
    \/ ReadUltrasoundImages
    \/ ReadUltrasoundImage
    \/ DeleteUltrasoundImage
    \/ CreateDetectionResult
    \/ ReadDetectionResults
    \/ ReadDetectionResult
    \/ PutDetectionResult
    \/ DeleteDetectionResult
    \/ ReadDetectionResultsWithImage
    \/ UploadDetectionImage
    \/ ReadDetectionImages
    \/ ReadDetectionImage
    \/ DeleteDetectionImage
    \/ DetectDisease

(***************************************************************************)
(* C26: helpers of the statement.                                          *)
(***************************************************************************)
Ids(rows) == {r.id : r \in rows}

Answered(endpoint) == ap_last.endpoint = endpoint /\ ap_last.status = 200

(***************************************************************************)
(* C26: after any sequence of requests every detection image references an  *)
(* existing detection result, and every detection result and ultrasound     *)
(* image an existing case; once a case is deleted no ultrasound image and   *)
(* no detection result of it is left (nor, then, a detection image of such  *)
(* a result), and once a detection result is deleted no detection image of  *)
(* it is left.                                                              *)
(***************************************************************************)
C26_ReferentialIntegrity ==
    /\ \A d \in ap_detImages : d.result_id \in Ids(ap_results)
    /\ \A r \in ap_results : r.case_id \in Ids(ap_cases)
    /\ \A i \in ap_images : i.case_id \in Ids(ap_cases)
    /\ Answered("delete_case") =>
          /\ ap_last.case \notin Ids(ap_cases)
          /\ \A i \in ap_images : i.case_id # ap_last.case
          /\ \A r \in ap_results : r.case_id # ap_last.case
    /\ Answered("delete_detection_result") =>
          \A ref \in ap_last.body :
             /\ ref[2] \notin Ids(ap_results)
             /\ \A d \in ap_detImages : d.result_id # ref[2]

\* a case is deleted together with an ultrasound image, a result and a
\* detection image of that result, while another case stays
C26_Witness ==
    /\ Answered("delete_case")
    /\ \E i \in RowIds : <<"ultrasound_image", i>> \in ap_last.removed
    /\ \E r \in RowIds : <<"detection_result", r>> \in ap_last.removed
    /\ \E d \in RowIds : <<"detection_image", d>> \in ap_last.removed
    /\ ap_cases # {}

\* a result is deleted together with its detection images
C26_ResultWitness ==
    /\ Answered("delete_detection_result")
    /\ \E d \in RowIds : <<"detection_image", d>> \in ap_last.removed
    /\ ap_cases # {}

(***************************************************************************)
(* C27: when _finalize_conclusion is called with at least one vote, as      *)
(* detect_disease calls it, some vote has the returned label, and the       *)
(* returned confidence is a mean of their probabilities (it lies between    *)
(* the lowest and the highest of them), not the 0.0 of the branch for an    *)
(* empty set of agreeing votes.                                             *)
(***************************************************************************)
C27_AgreeingVoteExists ==
    (fin_out.called /\ Len(fin_in) >= 1) =>
        LET agree == VotesFor(fin_out.label)
        IN  /\ agree # {}
            /\ fin_out.confidence.den > 0
            /\ \E i \in agree :
                  fin_in[i].prob * fin_out.confidence.den <= fin_out.confidence.num
            /\ \E i \in agree :
                  fin_in[i].prob * fin_out.confidence.den >= fin_out.confidence.num

\* a tie: one vote for each label, and the one for mild is the agreeing set
C27_Witness ==
    /\ fin_out.called
    /\ Len(fin_in) = 2
    /\ Cardinality(VotesFor("mild")) = 1
    /\ Cardinality(VotesFor("moderate")) = 1
    /\ fin_out.label = "mild"
    /\ \E i \in VotesFor("mild") :
          fin_out.confidence = Frac(fin_in[i].prob, 1)

\* every vote is for moderate
C27_UnanimousWitness ==
    /\ fin_out.called
    /\ Len(fin_in) = MaxVotes
    /\ VotesFor("moderate") = DOMAIN fin_in
    /\ fin_out.label = "moderate"

(***************************************************************************)
(* C28: helpers of the statement.                                          *)
(***************************************************************************)
SeverityClauses == {"MR_mild", "MR_moderate"}

\* one severity clause, first, then finding phrases, each at most once
RebuiltConclusion(c) ==
    /\ Len(c) >= 1
    /\ c[1] \in SeverityClauses
    /\ \A i \in 2..Len(c) : c[i] \in Phrases
    /\ \A i \in 2..Len(c), j \in 2..Len(c) : c[i] = c[j] => i = j

FindingsIn(c) == {p \in Phrases : InSeq(p, c)}

C29_OverlaysOfThisRun ==
    (pc = "idle" /\ last.status = 200) =>
        \A d \in detImages :
            /\ d.created_at = clock
            /\ IF KindOfRow(d) = "gradcam"
               THEN d.image_type - 4 \in images
               ELSE d.image_type \in images

(***************************************************************************)
(* C30: a request of a user who is not the owner of the case it is about    *)
(* (the case itself, or the case of the result or image it names) is        *)
(* answered with 403, returns no row and removes none.                      *)
(***************************************************************************)
C30_NonOwnerForbidden ==
    (ap_last.owner # 0 /\ ap_last.owner # ap_last.user) =>
        /\ ap_last.status = 403
        /\ ap_last.body = {}
        /\ ap_last.removed = {}

(***************************************************************************)
(* Specifications.                                                         *)
(***************************************************************************)
\* _finalize_conclusion applied to every list of at most MaxVotes votes
InitFinalize ==
    /\ fin_in \in BoundedSeq(Vote, MaxVotes)
    /\ fin_out = NotCalled
    /\ ocr_pc = "loop"
    /\ ocr_attempt = 0
    /\ ocr_log = <<>>
    /\ images = {}
    /\ results = {}
    /\ detImages = {}
    /\ sess = {}
    /\ nextResultId = 1
    /\ nextImageId = 1
    /\ clock = 0
    /\ pc = "idle"
    /\ camLeft = {}
    /\ segLeft = {}
    /\ conclusion = <<>>
    /\ resultId = 0
    /\ hits = NoHits
    /\ last = NoResponse
    /\ pi_map = {}
    /\ pi_todo = {}
    /\ pi_data = <<>>
    /\ pi_log = <<>>
    /\ cc_rows = {}
    /\ cc_run = [r \in Runs |-> RunStart]
    /\ cc_nextId = 1
    /\ cc_clock = 0
    /\ ps_text = <<>>
    /\ ps_out = NotParsed
    /\ rp_data = <<>>
    /\ rp_out = NoReport
    /\ ec_in = <<>>
    /\ ec_out = NotEvaluated
    /\ sf_todo = {}
    /\ sf_concl = <<>>
    /\ sf_view = NoView
    /\ ap_cases = {}
    /\ ap_images = {}
    /\ ap_results = {}
    /\ ap_detImages = {}
    /\ ap_next = [case |-> 1, image |-> 1, result |-> 1, detImage |-> 1]
    /\ ap_last = NoRequest

NextFinalize == FinalizeCall

SpecFinalize == InitFinalize /\ [][NextFinalize]_vars

\* one call of recognize_from_base64 against every behaviour of the service
InitOcr ==
    /\ fin_in = <<>>
    /\ fin_out = NotCalled
    /\ ocr_pc = "loop"
    /\ ocr_attempt = 0
    /\ ocr_log = <<>>
    /\ images = {}
    /\ results = {}
    /\ detImages = {}
    /\ sess = {}
    /\ nextResultId = 1
    /\ nextImageId = 1
    /\ clock = 0
    /\ pc = "idle"
    /\ camLeft = {}
    /\ segLeft = {}
    /\ conclusion = <<>>
    /\ resultId = 0
    /\ hits = NoHits
    /\ last = NoResponse
    /\ pi_map = {}
    /\ pi_todo = {}
    /\ pi_data = <<>>
    /\ pi_log = <<>>
    /\ cc_rows = {}
    /\ cc_run = [r \in Runs |-> RunStart]
    /\ cc_nextId = 1
    /\ cc_clock = 0
    /\ ps_text = <<>>
    /\ ps_out = NotParsed
    /\ rp_data = <<>>
    /\ rp_out = NoReport
    /\ ec_in = <<>>
    /\ ec_out = NotEvaluated
    /\ sf_todo = {}
    /\ sf_concl = <<>>
    /\ sf_view = NoView
    /\ ap_cases = {}
    /\ ap_images = {}
    /\ ap_results = {}
    /\ ap_detImages = {}
    /\ ap_next = [case |-> 1, image |-> 1, result |-> 1, detImage |-> 1]
    /\ ap_last = NoRequest

SpecOcr == InitOcr /\ [][OcrNext]_vars

\* one case: uploads and deletions of its images, and detect requests one
\* after the other
Init ==
    /\ fin_in = <<>>
    /\ fin_out = NotCalled
    /\ ocr_pc = "loop"
    /\ ocr_attempt = 0
    /\ ocr_log = <<>>
    /\ images = {}
    /\ results = {}
    /\ detImages = {}
    /\ sess = {}
    /\ nextResultId = 1
    /\ nextImageId = 1
    /\ clock = 0
    /\ pc = "idle"
    /\ camLeft = {}
    /\ segLeft = {}
    /\ conclusion = <<>>
    /\ resultId = 0
    /\ hits = NoHits
    /\ last = NoResponse
    /\ pi_map = {}
    /\ pi_todo = {}
    /\ pi_data = <<>>
    /\ pi_log = <<>>
    /\ cc_rows = {}
    /\ cc_run = [r \in Runs |-> RunStart]
    /\ cc_nextId = 1
    /\ cc_clock = 0
    /\ ps_text = <<>>
    /\ ps_out = NotParsed
    /\ rp_data = <<>>
    /\ rp_out = NoReport
    /\ ec_in = <<>>
    /\ ec_out = NotEvaluated
    /\ sf_todo = {}
    /\ sf_concl = <<>>
    /\ sf_view = NoView
    /\ ap_cases = {}
    /\ ap_images = {}
    /\ ap_results = {}
    /\ ap_detImages = {}
    /\ ap_next = [case |-> 1, image |-> 1, result |-> 1, detImage |-> 1]
    /\ ap_last = NoRequest

Next ==
    \/ UploadImage
    \/ DeleteImage
    \/ DetectNoImages
    \/ DetectUnreadable
    \/ DetectNoUsableViews
    \/ DetectClassified
    \/ GradCamSave
    \/ GradCamFail
    \/ SegmentSave
    \/ SegmentFail
    \/ SegmentCommit
    \/ ReportSkip
    \/ ReportStep

Spec == Init /\ [][Next]_vars

\* process_images over every image map
InitProcess ==
    /\ fin_in = <<>>
    /\ fin_out = NotCalled
    /\ ocr_pc = "loop"
    /\ ocr_attempt = 0
    /\ ocr_log = <<>>
    /\ images = {}
    /\ results = {}
    /\ detImages = {}
    /\ sess = {}
    /\ nextResultId = 1
    /\ nextImageId = 1
    /\ clock = 0
    /\ pc = "idle"
    /\ camLeft = {}
    /\ segLeft = {}
    /\ conclusion = <<>>
    /\ resultId = 0
    /\ hits = NoHits
    /\ last = NoResponse
    /\ pi_map \in SUBSET ImageMapKeys
    /\ pi_todo = pi_map
    /\ pi_data = <<>>
    /\ pi_log = <<>>
    /\ cc_rows = {}
    /\ cc_run = [r \in Runs |-> RunStart]
    /\ cc_nextId = 1
    /\ cc_clock = 0
    /\ ps_text = <<>>
    /\ ps_out = NotParsed
    /\ rp_data = <<>>
    /\ rp_out = NoReport
    /\ ec_in = <<>>
    /\ ec_out = NotEvaluated
    /\ sf_todo = {}
    /\ sf_concl = <<>>
    /\ sf_view = NoView
    /\ ap_cases = {}
    /\ ap_images = {}
    /\ ap_results = {}
    /\ ap_detImages = {}
    /\ ap_next = [case |-> 1, image |-> 1, result |-> 1, detImage |-> 1]
    /\ ap_last = NoRequest

SpecProcess == InitProcess /\ [][process_images]_vars

\* two runs of detect_disease on one case, which has no result yet or one
\* from an earlier run
InitInterleaved ==
    /\ fin_in = <<>>
    /\ fin_out = NotCalled
    /\ ocr_pc = "loop"
    /\ ocr_attempt = 0
    /\ ocr_log = <<>>
    /\ images = {}
    /\ results = {}
    /\ detImages = {}
    /\ sess = {}
    /\ nextResultId = 1
    /\ nextImageId = 1
    /\ clock = 0
    /\ pc = "idle"
    /\ camLeft = {}
    /\ segLeft = {}
    /\ conclusion = <<>>
    /\ resultId = 0
    /\ hits = NoHits
    /\ last = NoResponse
    /\ pi_map = {}
    /\ pi_todo = {}
    /\ pi_data = <<>>
    /\ pi_log = <<>>
    /\ cc_rows \in {{}, {EarlierResult}}
    /\ cc_run = [r \in Runs |-> RunStart]
    /\ cc_nextId = IF cc_rows = {} THEN 1 ELSE 2
    /\ cc_clock = 0
    /\ ps_text = <<>>
    /\ ps_out = NotParsed
    /\ rp_data = <<>>
    /\ rp_out = NoReport
    /\ ec_in = <<>>
    /\ ec_out = NotEvaluated
    /\ sf_todo = {}
    /\ sf_concl = <<>>
    /\ sf_view = NoView
    /\ ap_cases = {}
    /\ ap_images = {}
    /\ ap_results = {}
    /\ ap_detImages = {}
    /\ ap_next = [case |-> 1, image |-> 1, result |-> 1, detImage |-> 1]
    /\ ap_last = NoRequest

NextInterleaved == \E r \in Runs : RunStep(r)

SpecInterleaved == InitInterleaved /\ [][NextInterleaved]_vars

\* a case whose result carries a description set through the PUT endpoint, with
\* no image, one classifier view, or that and a measurement view; detect
\* requests and further PUTs follow
InitEdit ==
    /\ fin_in = <<>>
    /\ fin_out = NotCalled
    /\ ocr_pc = "loop"
    /\ ocr_attempt = 0
    /\ ocr_log = <<>>
    /\ images \in {{}, {3}, {3, 5}}
    /\ results = {EditedResult}
    /\ detImages = {}
    /\ sess = {}
    /\ nextResultId = 2
    /\ nextImageId = 1
    /\ clock = 0
    /\ pc = "idle"
    /\ camLeft = {}
    /\ segLeft = {}
    /\ conclusion = <<>>
    /\ resultId = 0
    /\ hits = NoHits
    /\ last = NoResponse
    /\ pi_map = {}
    /\ pi_todo = {}
    /\ pi_data = <<>>
    /\ pi_log = <<>>
    /\ cc_rows = {}
    /\ cc_run = [r \in Runs |-> RunStart]
    /\ cc_nextId = 1
    /\ cc_clock = 0
    /\ ps_text = <<>>
    /\ ps_out = NotParsed
    /\ rp_data = <<>>
    /\ rp_out = NoReport
    /\ ec_in = <<>>
    /\ ec_out = NotEvaluated
    /\ sf_todo = {}
    /\ sf_concl = <<>>
    /\ sf_view = NoView
    /\ ap_cases = {}
    /\ ap_images = {}
    /\ ap_results = {}
    /\ ap_detImages = {}
    /\ ap_next = [case |-> 1, image |-> 1, result |-> 1, detImage |-> 1]
    /\ ap_last = NoRequest

NextEdit ==
    \/ UpdateDetectionResult
    \/ DetectNoImages
    \/ DetectUnreadable
    \/ DetectNoUsableViews
    \/ DetectClassified
    \/ GradCamSave
    \/ GradCamFail
    \/ SegmentSave
    \/ SegmentFail
    \/ SegmentCommit
    \/ ReportSkip
    \/ ReportStep

SpecEdit == InitEdit /\ [][NextEdit]_vars

\* _parse_ultrasound_data on every text of at most MaxDistances distance
\* annotations
InitDistances ==
    /\ fin_in = <<>>
    /\ fin_out = NotCalled
    /\ ocr_pc = "loop"
    /\ ocr_attempt = 0
    /\ ocr_log = <<>>
    /\ images = {}
    /\ results = {}
    /\ detImages = {}
    /\ sess = {}
    /\ nextResultId = 1
    /\ nextImageId = 1
    /\ clock = 0
    /\ pc = "idle"
    /\ camLeft = {}
    /\ segLeft = {}
    /\ conclusion = <<>>
    /\ resultId = 0
    /\ hits = NoHits
    /\ last = NoResponse
    /\ pi_map = {}
    /\ pi_todo = {}
    /\ pi_data = <<>>
    /\ pi_log = <<>>
    /\ cc_rows = {}
    /\ cc_run = [r \in Runs |-> RunStart]
    /\ cc_nextId = 1
    /\ cc_clock = 0
    /\ ps_text \in BoundedSeq(DistanceTokens, MaxDistances)
    /\ ps_out = NotParsed
    /\ rp_data = <<>>
    /\ rp_out = NoReport
    /\ ec_in = <<>>
    /\ ec_out = NotEvaluated
    /\ sf_todo = {}
    /\ sf_concl = <<>>
    /\ sf_view = NoView
    /\ ap_cases = {}
    /\ ap_images = {}
    /\ ap_results = {}
    /\ ap_detImages = {}
    /\ ap_next = [case |-> 1, image |-> 1, result |-> 1, detImage |-> 1]
    /\ ap_last = NoRequest

SpecDistances == InitDistances /\ [][ParseCall]_vars

\* _parse_ultrasound_data on every text of at most MaxTokens Doppler annotations
InitDoppler ==
    /\ fin_in = <<>>
    /\ fin_out = NotCalled
    /\ ocr_pc = "loop"
    /\ ocr_attempt = 0
    /\ ocr_log = <<>>
    /\ images = {}
    /\ results = {}
    /\ detImages = {}
    /\ sess = {}
    /\ nextResultId = 1
    /\ nextImageId = 1
    /\ clock = 0
    /\ pc = "idle"
    /\ camLeft = {}
    /\ segLeft = {}
    /\ conclusion = <<>>
    /\ resultId = 0
    /\ hits = NoHits
    /\ last = NoResponse
    /\ pi_map = {}
    /\ pi_todo = {}
    /\ pi_data = <<>>
    /\ pi_log = <<>>
    /\ cc_rows = {}
    /\ cc_run = [r \in Runs |-> RunStart]
    /\ cc_nextId = 1
    /\ cc_clock = 0
    /\ ps_text \in BoundedSeq(DopplerTokens, MaxTokens)
    /\ ps_out = NotParsed
    /\ rp_data = <<>>
    /\ rp_out = NoReport
    /\ ec_in = <<>>
    /\ ec_out = NotEvaluated
    /\ sf_todo = {}
    /\ sf_concl = <<>>
    /\ sf_view = NoView
    /\ ap_cases = {}
    /\ ap_images = {}
    /\ ap_results = {}
    /\ ap_detImages = {}
    /\ ap_next = [case |-> 1, image |-> 1, result |-> 1, detImage |-> 1]
    /\ ap_last = NoRequest

SpecDoppler == InitDoppler /\ [][ParseCall]_vars

\* UltrasoundReport.report: at most MaxViews views recognized, then the report
InitReport ==
    /\ fin_in = <<>>
    /\ fin_out = NotCalled
    /\ ocr_pc = "loop"
    /\ ocr_attempt = 0
    /\ ocr_log = <<>>
    /\ images = {}
    /\ results = {}
    /\ detImages = {}
    /\ sess = {}
    /\ nextResultId = 1
    /\ nextImageId = 1
    /\ clock = 0
    /\ pc = "idle"
    /\ camLeft = {}
    /\ segLeft = {}
    /\ conclusion = <<>>
    /\ resultId = 0
    /\ hits = NoHits
    /\ last = NoResponse
    /\ pi_map = {}
    /\ pi_todo = {}
    /\ pi_data = <<>>
    /\ pi_log = <<>>
    /\ cc_rows = {}
    /\ cc_run = [r \in Runs |-> RunStart]
    /\ cc_nextId = 1
    /\ cc_clock = 0
    /\ ps_text = <<>>
    /\ ps_out = NotParsed
    /\ rp_data = <<>>
    /\ rp_out = NoReport
    /\ ec_in = <<>>
    /\ ec_out = NotEvaluated
    /\ sf_todo = {}
    /\ sf_concl = <<>>
    /\ sf_view = NoView
    /\ ap_cases = {}
    /\ ap_images = {}
    /\ ap_results = {}
    /\ ap_detImages = {}
    /\ ap_next = [case |-> 1, image |-> 1, result |-> 1, detImage |-> 1]
    /\ ap_last = NoRequest

SpecReport == InitReport /\ [][NextReport]_vars

\* _evaluate_chamber_size on every four sizes out of ChamberValues
InitChamber ==
    /\ fin_in = <<>>
    /\ fin_out = NotCalled
    /\ ocr_pc = "loop"
    /\ ocr_attempt = 0
    /\ ocr_log = <<>>
    /\ images = {}
    /\ results = {}
    /\ detImages = {}
    /\ sess = {}
    /\ nextResultId = 1
    /\ nextImageId = 1
    /\ clock = 0
    /\ pc = "idle"
    /\ camLeft = {}
    /\ segLeft = {}
    /\ conclusion = <<>>
    /\ resultId = 0
    /\ hits = NoHits
    /\ last = NoResponse
    /\ pi_map = {}
    /\ pi_todo = {}
    /\ pi_data = <<>>
    /\ pi_log = <<>>
    /\ cc_rows = {}
    /\ cc_run = [r \in Runs |-> RunStart]
    /\ cc_nextId = 1
    /\ cc_clock = 0
    /\ ps_text = <<>>
    /\ ps_out = NotParsed
    /\ rp_data = <<>>
    /\ rp_out = NoReport
    /\ ec_in \in [ChamberKeys -> ChamberValues]
    /\ ec_out = NotEvaluated
    /\ sf_todo = {}
    /\ sf_concl = <<>>
    /\ sf_view = NoView
    /\ ap_cases = {}
    /\ ap_images = {}
    /\ ap_results = {}
    /\ ap_detImages = {}
    /\ ap_next = [case |-> 1, image |-> 1, result |-> 1, detImage |-> 1]
    /\ ap_last = NoRequest

SpecChamber == InitChamber /\ [][EvaluateChamber]_vars

\* the findings loop of segment_and_save_masks over the views of a case
InitFindings ==
    /\ fin_in = <<>>
    /\ fin_out = NotCalled
    /\ ocr_pc = "loop"
    /\ ocr_attempt = 0
    /\ ocr_log = <<>>
    /\ images = {}
    /\ results = {}
    /\ detImages = {}
    /\ sess = {}
    /\ nextResultId = 1
    /\ nextImageId = 1
    /\ clock = 0
    /\ pc = "idle"
    /\ camLeft = {}
    /\ segLeft = {}
    /\ conclusion = <<>>
    /\ resultId = 0
    /\ hits = NoHits
    /\ last = NoResponse
    /\ pi_map = {}
    /\ pi_todo = {}
    /\ pi_data = <<>>
    /\ pi_log = <<>>
    /\ cc_rows = {}
    /\ cc_run = [r \in Runs |-> RunStart]
    /\ cc_nextId = 1
    /\ cc_clock = 0
    /\ ps_text = <<>>
    /\ ps_out = NotParsed
    /\ rp_data = <<>>
    /\ rp_out = NoReport
    /\ ec_in = <<>>
    /\ ec_out = NotEvaluated
    /\ sf_todo \in SUBSET SegmentationViews
    /\ sf_concl \in {<<SeverityClause(l)>> : l \in class_names}
    /\ sf_view = NoView
    /\ ap_cases = {}
    /\ ap_images = {}
    /\ ap_results = {}
    /\ ap_detImages = {}
    /\ ap_next = [case |-> 1, image |-> 1, result |-> 1, detImage |-> 1]
    /\ ap_last = NoRequest

SpecFindings == InitFindings /\ [][SegmentView]_vars

\* the endpoints, from empty tables: at most MaxCases cases are ever created
\* and at most MaxRows rows added to each other table
InitApi ==
    /\ fin_in = <<>>
    /\ fin_out = NotCalled
    /\ ocr_pc = "loop"
    /\ ocr_attempt = 0
    /\ ocr_log = <<>>
    /\ images = {}
    /\ results = {}
    /\ detImages = {}
    /\ sess = {}
    /\ nextResultId = 1
    /\ nextImageId = 1
    /\ clock = 0
    /\ pc = "idle"
    /\ camLeft = {}
    /\ segLeft = {}
    /\ conclusion = <<>>
    /\ resultId = 0
    /\ hits = NoHits
    /\ last = NoResponse
    /\ pi_map = {}
    /\ pi_todo = {}
    /\ pi_data = <<>>
    /\ pi_log = <<>>
    /\ cc_rows = {}
    /\ cc_run = [r \in Runs |-> RunStart]
    /\ cc_nextId = 1
    /\ cc_clock = 0
    /\ ps_text = <<>>
    /\ ps_out = NotParsed
    /\ rp_data = <<>>
    /\ rp_out = NoReport
    /\ ec_in = <<>>
    /\ ec_out = NotEvaluated
    /\ sf_todo = {}
    /\ sf_concl = <<>>
    /\ sf_view = NoView
    /\ ap_cases = {}
    /\ ap_images = {}
    /\ ap_results = {}
    /\ ap_detImages = {}
    /\ ap_next = [case |-> 1, image |-> 1, result |-> 1, detImage |-> 1]
    /\ ap_last = NoRequest

SpecApi == InitApi /\ [][NextApi]_vars

=============================================================================
